---- MODULE Spec2Model ----
(***************************************************************************)
(* A model of libxdiff-rs: the MMFile / MMBlocks wrappers of src/src and   *)
(* the diff, patch and three-way-merge engines they call.                  *)
(*                                                                         *)
(* A file is a sequence of bytes; a byte is a one-character string.  The   *)
(* engines (xdl_diff, xdl_patch, xdl_merge3) are vendored C code that is   *)
(* not part of src/: they are modelled from the specification and from     *)
(* the outputs the tests of src/src/tests.rs expect.  The files the model  *)
(* feeds to the engines consist of newline-terminated lines (the patch     *)
(* grammar of the specification defines no rendering of an unterminated    *)
(* last line).                                                             *)
(***************************************************************************)
EXTENDS Integers, Sequences, FiniteSets, TLC

\* ------------------------------------------------------------------ bounds
\* Longest byte sequence a file is constructed from.
MaxLen == 5
\* Longest short operand of diff / patch, in bytes.
MaxTextLen == 4
\* Last byte of a file that a write through as_slice_mut may reach.
MaxMut == 2
\* Most blocks written to one MMBlocks.
MaxBlocks == 2
\* Most blocks allocated in one run over MMBlocks.
MaxAlloc == 4
\* Threads that call ensure_init, and calls of each.
MaxThreads == 3
MaxCalls == 2
\* Longest run of unchanged lines between the two regions of a merge.
MaxMergeGap == 4
\* Longest run of unchanged lines between the two edits of a long operand.
MaxGap == 7
\* Latest write of compute_patch that may fail.
MaxFail == 2

\* --------------------------------------------------------- program constants
\* xdemitconf_t{ ctxlen: 3 }
ctxlen == 3

NL == "\n"

Max(x, y) == IF x >= y THEN x ELSE y
Min(x, y) == IF x <= y THEN x ELSE y

\* ------------------------------------------------------------------- bytes
RECURSIVE Concat(_)
\* The bytes of a sequence of buffers, in order.
Concat(bufs) ==
    IF Len(bufs) = 0 THEN <<>>
    ELSE IF Len(bufs) = 1 THEN bufs[1]
    ELSE LET h == Len(bufs) \div 2
         IN  Concat(SubSeq(bufs, 1, h)) \o Concat(SubSeq(bufs, h + 1, Len(bufs)))

\* The positions at which a line of s ends: every newline, and the last
\* byte of a file that does not end in one.
LineEnds(s) ==
    {k \in 1..Len(s) : s[k] = NL \/ k = Len(s)}

\* A file's lines: each keeps its terminating newline; a last line without
\* one is kept as a shorter line.
SplitLines(s) ==
    LET ends == LineEnds(s)
        nth(i) == CHOOSE e \in ends : Cardinality({x \in ends : x <= e}) = i
    IN  [i \in 1..Cardinality(ends) |->
            SubSeq(s, IF i = 1 THEN 1 ELSE nth(i - 1) + 1, nth(i))]

\* ----------------------------------------------------------------- numbers
Digits == <<"0", "1", "2", "3", "4", "5", "6", "7", "8", "9">>

RECURSIVE NumOut(_)
\* The decimal digits of n >= 0.
NumOut(n) ==
    IF n < 10 THEN <<Digits[n + 1]>>
    ELSE NumOut(n \div 10) \o <<Digits[(n % 10) + 1]>>

IsDigit(c) == \E d \in 1..10 : Digits[d] = c

DigitVal(c) == (CHOOSE d \in 1..10 : Digits[d] = c) - 1

RECURSIVE NumIn(_, _, _)
\* Reads a decimal number of s from byte k on: <<value, next index>>;
\* the value is -1 when no digit stands at k.
NumIn(s, k, acc) ==
    IF k <= Len(s) /\ IsDigit(s[k])
    THEN NumIn(s, k + 1, (IF acc < 0 THEN 0 ELSE acc * 10) + DigitVal(s[k]))
    ELSE <<acc, k>>

\* ------------------------------------------------------- xdl_diff (engine)
\* One row of the longest-common-subsequence table: the line ai is left
\* unmatched (the row below), or matched with an equal line b[k], k >= j.
LcsRow(ai, b, below) ==
    [j \in 1..(Len(b) + 1) |->
        LET via == {below[k + 1] + 1 : k \in {x \in j..Len(b) : b[x] = ai}}
        IN  IF via = {} THEN below[j]
            ELSE Max(below[j], CHOOSE m \in via : \A o \in via : m >= o)]

RECURSIVE LcsRows(_, _, _, _)
\* Rows i..Len(a)+1 of the table, given rows i+1..Len(a)+1.
LcsRows(a, b, i, rows) ==
    IF i = 0 THEN rows
    ELSE LcsRows(a, b, i - 1,
                 <<LcsRow(a[i], b, rows[1])>> \o rows)

\* T[i][j]: length of a longest common subsequence of a[i..] and b[j..].
LcsTable(a, b) ==
    LcsRows(a, b, Len(a), << [j \in 1..(Len(b) + 1) |-> 0] >>)

RECURSIVE EditWalk(_, _, _, _, _, _)
\* The edit script from (i, j) on: "=" keeps a line of both files, "-"
\* deletes a line of a, "+" adds a line of b.  Equal lines are matched at
\* the earliest position; a changed run lists its deletions first.
EditWalk(a, b, T, i, j, acc) ==
    IF i > Len(a) /\ j > Len(b) THEN acc
    ELSE IF i > Len(a)
         THEN EditWalk(a, b, T, i, j + 1, Append(acc, [t |-> "+", l |-> b[j]]))
    ELSE IF j > Len(b)
         THEN EditWalk(a, b, T, i + 1, j, Append(acc, [t |-> "-", l |-> a[i]]))
    ELSE IF a[i] = b[j]
         THEN EditWalk(a, b, T, i + 1, j + 1, Append(acc, [t |-> "=", l |-> a[i]]))
    ELSE IF T[i + 1][j] >= T[i][j + 1]
         THEN EditWalk(a, b, T, i + 1, j, Append(acc, [t |-> "-", l |-> a[i]]))
    ELSE EditWalk(a, b, T, i, j + 1, Append(acc, [t |-> "+", l |-> b[j]]))

\* The minimal line edit script turning the lines a into the lines b.
EditScript(a, b) == EditWalk(a, b, LcsTable(a, b), 1, 1, <<>>)

\* Number of old (new) lines among the first k entries of an edit script.
OldCount(ops, k) == Cardinality({x \in 1..k : ops[x].t \in {"=", "-"}})
NewCount(ops, k) == Cardinality({x \in 1..k : ops[x].t \in {"=", "+"}})

Changed(ops) == {k \in 1..Len(ops) : ops[k].t # "="}

RECURSIVE HunkLast_wide(_, _)
\* HunkLast with the later change joining at 2 x ctxlen lines as well.
HunkLast_wide(ops, last) ==
    LET later == {k \in Changed(ops) : k > last}
    IN  IF later = {} THEN last
        ELSE LET nxt == CHOOSE k \in later : \A m \in later : k <= m
             IN  IF nxt - last - 1 <= 2 * ctxlen
                 THEN HunkLast_wide(ops, nxt)
                 ELSE last

RECURSIVE HunkLast(_, _)
\* The last changed entry of the hunk whose changes reach `last` so far: a
\* later change joins while fewer than 2 x ctxlen unchanged lines separate.
HunkLast(ops, last) ==
    LET later == {k \in Changed(ops) : k > last}
    IN  IF later = {} THEN last
        ELSE LET nxt == CHOOSE k \in later : \A m \in later : k <= m
             IN  IF nxt - last - 1 < 2 * ctxlen
                 THEN HunkLast(ops, nxt)
                 ELSE last

RECURSIVE HunksFrom(_, _, _)
\* The hunks of an edit script after entry `pos`, as ranges [lo, hi] of
\* entries: the changes plus up to ctxlen unchanged lines on each side.
HunksFrom(ops, pos, acc) ==
    LET later == {k \in Changed(ops) : k > pos}
    IN  IF later = {} THEN acc
        ELSE LET first == CHOOSE k \in later : \A m \in later : k <= m
                 last  == HunkLast(ops, first)
                 hk    == [lo |-> Max(pos + 1, Max(1, first - ctxlen)),
                           hi |-> Min(Len(ops), last + ctxlen)]
             IN  HunksFrom(ops, hk.hi, Append(acc, hk))

Hunks(ops) == HunksFrom(ops, 0, <<>>)

\* "@@ -<old_start>,<old_len> +<new_start>,<new_len> @@\n"; an empty range
\* is given the line before it.
HunkHeader(s1, c1, s2, c2) ==
    <<"@", "@", " ", "-">> \o NumOut(IF c1 > 0 THEN s1 ELSE s1 - 1)
        \o <<",">> \o NumOut(c1)
        \o <<" ", "+">> \o NumOut(IF c2 > 0 THEN s2 ELSE s2 - 1)
        \o <<",">> \o NumOut(c2) \o <<" ", "@", "@", NL>>

\* What the engine hands to the output function for one hunk: the header
\* as one buffer, then each line as the buffers <<tag, content>>.
HunkEmit(ops, hk) ==
    LET s1 == OldCount(ops, hk.lo - 1) + 1
        c1 == OldCount(ops, hk.hi) - OldCount(ops, hk.lo - 1)
        s2 == NewCount(ops, hk.lo - 1) + 1
        c2 == NewCount(ops, hk.hi) - NewCount(ops, hk.lo - 1)
        tag(t) == IF t = "=" THEN " " ELSE t
    IN  << <<HunkHeader(s1, c1, s2, c2)>> >>
        \o [k \in 1..(hk.hi - hk.lo + 1) |->
               << <<tag(ops[hk.lo + k - 1].t)>>, ops[hk.lo + k - 1].l >>]

RECURSIVE EmitAll(_, _)
EmitAll(ops, hks) ==
    IF hks = <<>> THEN <<>>
    ELSE HunkEmit(ops, Head(hks)) \o EmitAll(ops, Tail(hks))

\* xdl_diff(from, to): the batches of buffers handed, in order, to the
\* output function.
xdl_diff_emit(from, to) ==
    LET Emit(ops) == EmitAll(ops, Hunks(ops))
    IN  Emit(EditScript(SplitLines(from), SplitLines(to)))

\* ------------------------------------------------------ xdl_patch (engine)
IsHeaderLine(l) ==
    Len(l) >= 4 /\ l[1] = "@" /\ l[2] = "@" /\ l[3] = " " /\ l[4] = "-"

\* Whether line l carries the bytes lit from byte k on.
HasAt(l, k, lit) ==
    /\ k + Len(lit) - 1 <= Len(l)
    /\ \A x \in 1..Len(lit) : l[k + x - 1] = lit[x]

\* The four numbers of a hunk header; ok is FALSE when the line does not
\* follow "@@ -<n>,<n> +<n>,<n> @@\n".
ParseHeader(l) ==
    LET n1 == NumIn(l, 5, -1)
        n2 == NumIn(l, n1[2] + 1, -1)
        n3 == NumIn(l, n2[2] + 2, -1)
        n4 == NumIn(l, n3[2] + 1, -1)
    IN  [ok |-> /\ IsHeaderLine(l)
                /\ n1[1] >= 0 /\ HasAt(l, n1[2], <<",">>)
                /\ n2[1] >= 0 /\ HasAt(l, n2[2], <<" ", "+">>)
                /\ n3[1] >= 0 /\ HasAt(l, n3[2], <<",">>)
                /\ n4[1] >= 0 /\ HasAt(l, n4[2], <<" ", "@", "@", NL>>)
                /\ Len(l) = n4[2] + 3,
         s1 |-> n1[1], c1 |-> n2[1], s2 |-> n3[1], c2 |-> n4[1]]

\* The hunk whose header is line k of the patch and whose body ends with
\* line e.
ParseHunk(lines, k, e) ==
    LET Hunk(h, body) ==
            LET olds == {x \in 1..Len(body) : body[x].t \in {" ", "-"}}
                news == {x \in 1..Len(body) : body[x].t \in {" ", "+"}}
            IN  [ok   |-> /\ h.ok
                          /\ \A x \in 1..Len(body) :
                                 body[x].t \in {" ", "-", "+"}
                          /\ Cardinality(olds) = h.c1
                          /\ Cardinality(news) = h.c2,
                 s1 |-> h.s1, c1 |-> h.c1, s2 |-> h.s2, c2 |-> h.c2,
                 body |-> body,
                 raw  |-> SubSeq(lines, k, e)]
    IN  Hunk(ParseHeader(lines[k]),
             [x \in 1..(e - k) |->
                 [t |-> Head(lines[k + x]), l |-> Tail(lines[k + x])]])

\* The hunk sequence of a patch text; ok is FALSE when the text does not
\* parse against the hunk grammar.
ParsePatch(text) ==
    LET Parsed(lines, heads) ==
            LET EndOf(k) ==
                    IF \E m \in heads : m > k
                    THEN (CHOOSE m \in heads :
                              m > k /\ \A n \in heads : n > k => m <= n) - 1
                    ELSE Len(lines)
                Nth(x) == CHOOSE k \in heads :
                              Cardinality({m \in heads : m < k}) = x - 1
                Result(hunks) ==
                    [ok    |-> /\ (lines # <<>> => 1 \in heads)
                               /\ \A x \in 1..Len(hunks) : hunks[x].ok,
                     hunks |-> hunks]
            IN  Result([x \in 1..Cardinality(heads) |->
                           ParseHunk(lines, Nth(x), EndOf(Nth(x)))])
        Lines(lines) ==
            Parsed(lines, {k \in 1..Len(lines) : IsHeaderLine(lines[k])})
    IN  Lines(SplitLines(text))

\* The old side of a hunk: its context and deletion lines, in order.
OldLines(hk) ==
    LET ix == {x \in 1..Len(hk.body) : hk.body[x].t \in {" ", "-"}}
    IN  [n \in 1..Cardinality(ix) |->
            hk.body[CHOOSE x \in ix : Cardinality({y \in ix : y < x}) = n - 1].l]

\* The new side of a hunk: its context and addition lines, in order.
NewLines(hk) ==
    LET ix == {x \in 1..Len(hk.body) : hk.body[x].t \in {" ", "+"}}
    IN  [n \in 1..Cardinality(ix) |->
            hk.body[CHOOSE x \in ix : Cardinality({y \in ix : y < x}) = n - 1].l]

\* Whether the lines old stand in recs right after its first p lines.
MatchAt(recs, p, old) ==
    /\ p >= 0 /\ p + Len(old) <= Len(recs)
    /\ \A x \in 1..Len(old) : recs[p + x] = old[x]

\* Where a hunk applies: the matching position (a count of lines before
\* it) not before ibase that is nearest to the expected one; -1 if none.
FindHunk(recs, ibase, old, expect) ==
    LET cands == {p \in ibase..Len(recs) : MatchAt(recs, p, old)}
        Dist(p) == IF p >= expect THEN p - expect ELSE expect - p
    IN  IF cands = {} THEN -1
        ELSE CHOOSE p \in cands :
                 \A q \in cands :
                     Dist(p) < Dist(q) \/ (Dist(p) = Dist(q) /\ p >= q)

\* One buffer per line, delivered to the accepted ("acc") or the rejected
\* ("rej") output function.
ToStream(s, lines) == [x \in 1..Len(lines) |-> [s |-> s, bufs |-> <<lines[x]>>]]

RECURSIVE PatchWalk(_, _, _, _, _, _)
\* Applies the hunks from number n on.  ibase: lines of the file consumed;
\* drift: how far the last applied hunk stood from its header's position.
PatchWalk(recs, hunks, n, ibase, drift, acc) ==
    IF n > Len(hunks)
    THEN acc \o ToStream("acc", SubSeq(recs, ibase + 1, Len(recs)))
    ELSE LET hk     == hunks[n]
             hpos   == IF hk.c1 > 0 THEN hk.s1 - 1 ELSE hk.s1
             At(p)  ==
                 IF p >= 0
                 THEN PatchWalk(recs, hunks, n + 1, p + hk.c1, p - hpos,
                                acc \o ToStream("acc", SubSeq(recs, ibase + 1, p))
                                    \o ToStream("acc", NewLines(hk)))
                 ELSE PatchWalk(recs, hunks, n + 1, ibase, drift,
                                acc \o ToStream("rej", hk.raw))
         IN  At(FindHunk(recs, ibase, OldLines(hk), hpos + drift))

\* xdl_patch(file, patch): the deliveries in order, and the status when no
\* output function fails: -1 for a patch that does not parse, 0 when every
\* hunk applied, 1 when a hunk was rejected.
xdl_patch_emit(file, patch) ==
    LET Status(em) ==
            [emit |-> em,
             rc   |-> IF \E x \in 1..Len(em) : em[x].s = "rej" THEN 1 ELSE 0]
        Apply(pp) ==
            IF ~pp.ok THEN [emit |-> <<>>, rc |-> -1]
            ELSE Status(PatchWalk(SplitLines(file), pp.hunks, 1, 0, 0, <<>>))
    IN  Apply(ParsePatch(patch))

\* ----------------------------------------------------- xdl_merge3 (engine)
\* The batches of xdl_diff written one after the other to a patch file.
DiffText(from, to) ==
    LET bs == xdl_diff_emit(from, to)
    IN  Concat([x \in 1..Len(bs) |-> Concat(bs[x])])

\* xdl_merge3(base, f1, f2): the changes from base to f2 are applied to
\* f1; a change that does not apply to f1 is delivered as a rejected hunk.
\* The status is 0 whether or not hunks were rejected.
xdl_merge3_emit(base, f1, f2) ==
    [emit |-> xdl_patch_emit(f1, DiffText(base, f2)).emit, rc |-> 0]

\* -------------------------------------------------- mmfile_t (libxdiff-sys)
\* A memory file: its blocks (segments) in order and the cached total size.
init_mmfile(size) == [blocks |-> <<>>, fsize |-> 0]

\* xdl_write_mmfile: appends the first w bytes of data as a block and
\* returns w; w is len(data) for a full write, less for a short one (-1:
\* no memory).
xdl_write_mmfile(mmf, data, w) ==
    [mmf |-> IF w > 0
             THEN [blocks |-> Append(mmf.blocks, SubSeq(data, 1, w)),
                   fsize  |-> mmf.fsize + w]
             ELSE mmf,
     ret |-> w]

\* What a write of data may return.
WriteOutcomes(data) == (-1)..Len(data)

xdl_mmfile_size(mmf) == mmf.fsize

xdl_mmfile_iscompact(mmf) == Len(mmf.blocks) <= 1

\* xdl_mmfile_first: the first block and its length; null when there is
\* no block.
xdl_mmfile_first(mmf) ==
    IF mmf.blocks = <<>> THEN [null |-> TRUE, blk |-> <<>>, len |-> 0]
    ELSE [null |-> FALSE, blk |-> mmf.blocks[1], len |-> Len(mmf.blocks[1])]

\* xdl_mmfile_compact: a copy holding all the bytes in one block.
xdl_mmfile_compact(mmf) ==
    [blocks |-> IF mmf.fsize = 0 THEN <<>> ELSE <<Concat(mmf.blocks)>>,
     fsize  |-> mmf.fsize]

\* The bytes an engine reads from a file.
Content(mmf) == Concat(mmf.blocks)

RECURSIVE CmpWalk(_, _, _, _, _, _)
\* xdl_mmfile_cmp from block i of b1 (oi bytes of it compared) and block j
\* of b2 (oj bytes of it compared): the longest stretch that lies in both
\* blocks is compared, then the walk moves on in the block(s) it finished.
CmpWalk(b1, i, oi, b2, j, oj) ==
    IF i > Len(b1) \/ j > Len(b2)
    THEN IF i > Len(b1) /\ j > Len(b2) THEN 0
         ELSE IF i > Len(b1) THEN -1 ELSE 1
    ELSE LET n == Min(Len(b1[i]) - oi, Len(b2[j]) - oj)
         IN  IF SubSeq(b1[i], oi + 1, oi + n) # SubSeq(b2[j], oj + 1, oj + n)
             THEN 1
             ELSE CmpWalk(b1, IF oi + n = Len(b1[i]) THEN i + 1 ELSE i,
                          IF oi + n = Len(b1[i]) THEN 0 ELSE oi + n,
                          b2, IF oj + n = Len(b2[j]) THEN j + 1 ELSE j,
                          IF oj + n = Len(b2[j]) THEN 0 ELSE oj + n)

\* xdl_mmfile_cmp: 0 when the two files hold the same bytes.
xdl_mmfile_cmp(mmf1, mmf2) == CmpWalk(mmf1.blocks, 1, 0, mmf2.blocks, 1, 0)

\* Where the blocks of a file lie in memory: one address per block.  The
\* block of a compacted copy is newly allocated, at address fresh.
xdl_mmfile_compact_at(mmf, fresh) ==
    IF mmf.fsize = 0 THEN <<>> ELSE <<fresh>>

\* ------------------------------------------------------- MMBlocks (Rust)
MMBlocks_new == init_mmfile(0)

\* A write_buf that returns 0 whenever some byte was written.
write_buf_any(self, buf, w) ==
    LET r == xdl_write_mmfile(self, buf, w)
    IN  [self |-> r.mmf, ret |-> IF r.ret > 0 THEN 0 ELSE -1]

\* MMBlocks::write_buf: 0 when the whole buffer was written, else -1.
write_buf(self, buf, w) ==
    LET r == xdl_write_mmfile(self, buf, w)
    IN  [self |-> r.mmf, ret |-> IF r.ret = Len(buf) THEN 0 ELSE -1]

\* A to_mmfile that leaves the blocks as they are.
to_mmfile_raw(self) == self

\* MMBlocks::to_compact
to_compact(self) ==
    IF xdl_mmfile_iscompact(self) THEN self ELSE xdl_mmfile_compact(self)

\* MMBlocks::to_mmfile
to_mmfile(self) == to_compact(self)

\* MMBlocks::is_compact
MMBlocks_is_compact(self) == xdl_mmfile_iscompact(self)

\* MMBlocks::size
MMBlocks_size(self) == xdl_mmfile_size(self)

\* An MMBlocks (MMFile) with the addresses of its blocks: mm is the
\* mmfile_t, at[k] the address of block k.
\* MMBlocks::write_buf of the whole of buf, a non-empty buffer going to a
\* new block at address fresh.
write_buf_at(o, buf, fresh) ==
    [mm |-> write_buf(o.mm, buf, Len(buf)).self,
     at |-> IF Len(buf) > 0 THEN Append(o.at, fresh) ELSE o.at]

\* A to_compact that compacts a file into a new block even when it is
\* compact already.
to_compact_always(o, fresh) ==
    [mm |-> xdl_mmfile_compact(o.mm),
     at |-> xdl_mmfile_compact_at(o.mm, fresh)]

\* MMBlocks::to_compact: nothing happens to a compact file; else the
\* compacted copy is swapped in and the old blocks are dropped.
to_compact_at(o, fresh) ==
    IF MMBlocks_is_compact(o.mm) THEN o
    ELSE [mm |-> xdl_mmfile_compact(o.mm),
          at |-> xdl_mmfile_compact_at(o.mm, fresh)]

\* A clone that copies the mmfile_t struct: the copy points at the blocks
\* of the original.
clone_shallow(o, fresh) == o

\* MMBlocks::clone: a compacted copy, in a block of its own.
clone(o, fresh) ==
    [mm |-> xdl_mmfile_compact(o.mm),
     at |-> xdl_mmfile_compact_at(o.mm, fresh)]

\* MMBlocks::to_mmfile on an MMBlocks with its addresses.
to_mmfile_at(o, fresh) == to_compact_at(o, fresh)

\* A write of byte v at offset i of the block at address a, as it shows in
\* a file: every block of the file that lies at a has the byte.
WriteMem(o, a, i, v) ==
    [mm |-> [blocks |-> [k \in 1..Len(o.mm.blocks) |->
                            IF o.at[k] = a
                            THEN [o.mm.blocks[k] EXCEPT ![i] = v]
                            ELSE o.mm.blocks[k]],
             fsize  |-> o.mm.fsize],
     at |-> o.at]

\* An eq that takes a non-zero xdl_mmfile_cmp for equality.
MMBlocks_eq_inverted(self, other) == xdl_mmfile_cmp(self, other) # 0

\* MMBlocks::eq
MMBlocks_eq(self, other) == xdl_mmfile_cmp(self, other) = 0

\* MMFile::eq
MMFile_eq(self, other) == xdl_mmfile_cmp(self, other) = 0

\* --------------------------------------------------------- MMFile (Rust)
\* An empty slot: no file has been constructed.
NoFile == [blocks |-> <<>>, fsize |-> -1]

MMFile_new == init_mmfile(0)

\* A from_bytes that lets a short write through unless it is negative.
from_bytes_unchecked(bytes, w) ==
    LET r == xdl_write_mmfile(init_mmfile(Len(bytes)), bytes, w)
    IN  IF r.ret < 0 THEN [panic |-> TRUE, file |-> NoFile]
        ELSE [panic |-> FALSE, file |-> r.mmf]

\* MMFile::from_bytes: panics unless the write wrote every byte.
from_bytes(bytes, w) ==
    LET r == xdl_write_mmfile(init_mmfile(Len(bytes)), bytes, w)
    IN  IF r.ret # Len(bytes) THEN [panic |-> TRUE, file |-> NoFile]
        ELSE [panic |-> FALSE, file |-> r.mmf]

\* MMFile::size
size(self) == xdl_mmfile_size(self)

\* MMFile::is_compact
is_compact(self) == xdl_mmfile_iscompact(self)

\* MMFile::as_slice: the assertion fails (panic) on a file that is not
\* compact.
as_slice(self) ==
    IF ~is_compact(self) THEN [panic |-> TRUE, slice |-> <<>>]
    ELSE LET first == xdl_mmfile_first(self)
         IN  [panic |-> FALSE,
              slice |-> IF first.null \/ first.len <= 0 THEN <<>>
                        ELSE first.blk]

\* A write through as_slice_mut that lands in a copy of the block: the
\* file keeps its bytes.
as_slice_mut_copy(self, i, v) == self

\* A write of byte v through as_slice_mut()[i].
as_slice_mut_set(self, i, v) ==
    [self EXCEPT !.blocks[1][i] = v]

\* ------------------------------------------------------- results (Rust)
Ok == [ok |-> TRUE, msg |-> "", err |-> 0]
\* format!("<msg>{}", err)
Err(msg, err) == [ok |-> FALSE, msg |-> msg, err |-> err]

\* An emit_cb that swallows the panic and goes on with the next buffer.
RECURSIVE emit_cb_swallow(_, _, _, _)
emit_cb_swallow(bufs, i, panicIx, out) ==
    IF i > Len(bufs) THEN out
    ELSE IF i = panicIx
         THEN emit_cb_swallow(bufs, i + 1, panicIx,
                              [out EXCEPT !.calls = @ + 1, !.panicked = TRUE])
         ELSE emit_cb_swallow(bufs, i + 1, panicIx,
                              [out EXCEPT !.calls = @ + 1,
                                          !.pushed = Append(@, bufs[i])])

\* An emit_cb that hands the buffers of one call over as a single slice.
RECURSIVE emit_cb_joined(_, _, _, _)
emit_cb_joined(bufs, i, panicIx, out) ==
    IF i > Len(bufs) THEN out
    ELSE IF panicIx # 0
         THEN [out EXCEPT !.ret = -1, !.calls = @ + 1, !.panicked = TRUE]
         ELSE [out EXCEPT !.calls = @ + 1, !.pushed = <<Concat(bufs)>>]

RECURSIVE emit_cb(_, _, _, _)
\* emit_cb / reject_cb of diff_raw and merge3_raw, from buffer i on: each
\* buffer is passed to the boxed closure; a panic of the closure is caught
\* and turned into -1, and the loop ends there.  The closure pushes the
\* buffer it is given onto its Vec; it panics on buffer panicIx of this
\* call (0: on none).
emit_cb(bufs, i, panicIx, out) ==
    IF i > Len(bufs) THEN out
    ELSE IF i = panicIx
         THEN [out EXCEPT !.ret = -1, !.calls = @ + 1, !.panicked = TRUE]
         ELSE emit_cb(bufs, i + 1, panicIx,
                      [out EXCEPT !.calls = @ + 1,
                                  !.pushed = Append(@, bufs[i])])

\* A reject_cb that swallows the panic and goes on with the next buffer.
RECURSIVE reject_cb_swallow(_, _, _, _)
reject_cb_swallow(bufs, i, panicIx, out) ==
    IF i > Len(bufs) THEN out
    ELSE IF i = panicIx
         THEN reject_cb_swallow(bufs, i + 1, panicIx,
                                [out EXCEPT !.calls = @ + 1, !.panicked = TRUE])
         ELSE reject_cb_swallow(bufs, i + 1, panicIx,
                                [out EXCEPT !.calls = @ + 1,
                                            !.pushed = Append(@, bufs[i])])

\* An emit_cb of merge3_raw that passes every buffer to the closure twice.
merge3_emit_cb_twice(bufs, i, panicIx, out) ==
    IF panicIx # 0
    THEN [out EXCEPT !.ret = -1, !.calls = @ + 1, !.panicked = TRUE]
    ELSE [out EXCEPT !.calls = @ + 2 * Len(bufs),
                     !.pushed = @ \o Concat([x \in 1..Len(bufs) |->
                                                <<bufs[x], bufs[x]>>])]

RECURSIVE merge3_emit_cb(_, _, _, _)
\* emit_cb of merge3_raw (the accept callback), as emit_cb of diff_raw.
merge3_emit_cb(bufs, i, panicIx, out) ==
    IF i > Len(bufs) THEN out
    ELSE IF i = panicIx
         THEN [out EXCEPT !.ret = -1, !.calls = @ + 1, !.panicked = TRUE]
         ELSE merge3_emit_cb(bufs, i + 1, panicIx,
                             [out EXCEPT !.calls = @ + 1,
                                         !.pushed = Append(@, bufs[i])])

\* A reject_cb that returns 0 without calling the closure.
reject_cb_quiet(bufs, i, panicIx, out) == out

\* A reject_cb that passes the first byte of a buffer and the rest of it
\* to the closure as two slices.
reject_cb_split(bufs, i, panicIx, out) ==
    IF panicIx # 0
    THEN [out EXCEPT !.ret = -1, !.calls = @ + 1, !.panicked = TRUE]
    ELSE [out EXCEPT !.calls = @ + 2 * Len(bufs),
                     !.pushed = @ \o Concat([x \in 1..Len(bufs) |->
                                                <<SubSeq(bufs[x], 1, 1),
                                                  Tail(bufs[x])>>])]

RECURSIVE reject_cb(_, _, _, _)
\* reject_cb of merge3_raw: the same loop around the reject callback.
reject_cb(bufs, i, panicIx, out) ==
    IF i > Len(bufs) THEN out
    ELSE IF i = panicIx
         THEN [out EXCEPT !.ret = -1, !.calls = @ + 1, !.panicked = TRUE]
         ELSE reject_cb(bufs, i + 1, panicIx,
                        [out EXCEPT !.calls = @ + 1,
                                    !.pushed = Append(@, bufs[i])])

CbStart == [ret |-> 0, calls |-> 0, pushed |-> <<>>, panicked |-> FALSE]

\* diff_raw with Ok and Err exchanged.
diff_raw_result_inverted(e) ==
    IF e = 0 THEN Err("diff failed with err: ", e) ELSE Ok

\* diff_raw: the Result made of xdl_diff's status.
diff_raw_result(e) ==
    IF e # 0 THEN Err("diff failed with err: ", e) ELSE Ok

\* diff_raw_nopanic: the Result made of xdl_diff's status.
diff_raw_nopanic_result(e) ==
    IF e # 0 THEN Err("diff failed with errno: ", e) ELSE Ok

\* A merge3_raw that hands f2 to xdl_merge3 in the place of f1 and f1 in
\* the place of f2.
merge3_raw_call_swapped(base, f1, f2) ==
    xdl_merge3_emit(Content(base), Content(f2), Content(f1)).emit

\* merge3_raw: the call of xdl_merge3 on the three operands, as what the
\* engine is going to deliver.
merge3_raw_call(base, f1, f2) ==
    xdl_merge3_emit(Content(base), Content(f1), Content(f2)).emit

\* merge3_raw: the Result made of xdl_merge3's status.
merge3_raw_result(e) ==
    IF e # 0 THEN Err("merge failed with err: ", e) ELSE Ok

\* ------------------------------------------------ compute / apply (Rust)
RECURSIVE nopanic_emit_cb(_, _, _, _)
RECURSIVE nopanic_emit_cb_deaf(_, _, _, _)
\* An emit_cb of diff_raw_nopanic that goes on after a negative result.
nopanic_emit_cb_deaf(patch_ref, bufs, i, failIx) ==
    IF i > Len(bufs) THEN [self |-> patch_ref, ret |-> 0]
    ELSE nopanic_emit_cb_deaf(
             write_buf(patch_ref, bufs[i],
                       IF i = failIx THEN -1 ELSE Len(bufs[i])).self,
             bufs, i + 1, failIx)

\* emit_cb of diff_raw_nopanic under compute_patch's closure
\* |buf| patch.write_buf(buf), from buffer i on: the first negative result
\* is returned at once.  The write of buffer failIx finds no memory (0: no
\* write fails).
nopanic_emit_cb(patch_ref, bufs, i, failIx) ==
    IF i > Len(bufs) THEN [self |-> patch_ref, ret |-> 0]
    ELSE LET cb_result ==
                 write_buf(patch_ref, bufs[i],
                           IF i = failIx THEN -1 ELSE Len(bufs[i]))
         IN  IF cb_result.ret < 0
             THEN [self |-> cb_result.self, ret |-> cb_result.ret]
             ELSE nopanic_emit_cb(cb_result.self, bufs, i + 1, failIx)

\* An emit_cb of apply_patch that leaves out the first buffer of a call.
RECURSIVE patch_emit_cb_skip(_, _, _, _)
patch_emit_cb_skip(patch_ref, bufs, i, failIx) ==
    IF i > Len(bufs) THEN [self |-> patch_ref, ret |-> 0]
    ELSE IF i = 1 THEN patch_emit_cb_skip(patch_ref, bufs, i + 1, failIx)
    ELSE LET patch_result ==
                 write_buf(patch_ref, bufs[i],
                           IF i = failIx THEN -1 ELSE Len(bufs[i]))
         IN  IF patch_result.ret < 0
             THEN [self |-> patch_result.self, ret |-> patch_result.ret]
             ELSE patch_emit_cb_skip(patch_result.self, bufs, i + 1, failIx)

RECURSIVE patch_emit_cb(_, _, _, _)
\* emit_cb of apply_patch, from buffer i on: each buffer is written to the
\* MMPatch behind patch_ptr; a negative write_buf result is returned at once.
patch_emit_cb(patch_ref, bufs, i, failIx) ==
    IF i > Len(bufs) THEN [self |-> patch_ref, ret |-> 0]
    ELSE LET patch_result ==
                 write_buf(patch_ref, bufs[i],
                           IF i = failIx THEN -1 ELSE Len(bufs[i]))
         IN  IF patch_result.ret < 0
             THEN [self |-> patch_result.self, ret |-> patch_result.ret]
             ELSE patch_emit_cb(patch_result.self, bufs, i + 1, failIx)

RECURSIVE Deliver(_, _, _, _, _, _, _)
\* The engine hands the deliveries of stream, from number n on, to the
\* output functions (np: that of diff_raw_nopanic; else those of
\* apply_patch) and stops at the first negative result.  given: buffers
\* handed over so far; failAt: the buffer whose write fails (0: none).
Deliver(stream, n, acc, rej, given, failAt, np) ==
    IF n > Len(stream) THEN [acc |-> acc, rej |-> rej, ret |-> 0]
    ELSE LET it  == stream[n]
             fx  == IF failAt > given /\ failAt <= given + Len(it.bufs)
                    THEN failAt - given ELSE 0
             tgt == IF it.s = "acc" THEN acc ELSE rej
             r   == IF np THEN nopanic_emit_cb(tgt, it.bufs, 1, fx)
                    ELSE patch_emit_cb(tgt, it.bufs, 1, fx)
             a2  == IF it.s = "acc" THEN r.self ELSE acc
             r2  == IF it.s = "acc" THEN rej ELSE r.self
         IN  IF r.ret < 0 THEN [acc |-> a2, rej |-> r2, ret |-> -1]
             ELSE Deliver(stream, n + 1, a2, r2, given + Len(it.bufs),
                          failAt, np)

\* The batches of xdl_diff as deliveries to the one output function.
DiffStream(from, to) ==
    LET bs == xdl_diff_emit(from, to)
    IN  [x \in 1..Len(bs) |-> [s |-> "acc", bufs |-> bs[x]]]

\* MMFile::compute_patch: the diff of self and other written buffer by
\* buffer to a new MMPatch; Err when diff_raw_nopanic fails.  operands:
\* self and other as the call leaves them (the closure holds `patch` and
\* nothing else; xdl_diff reads its two files).
compute_patch(self, other, failAt) ==
    LET Ret(r) ==
            [result  |-> diff_raw_nopanic_result(r.ret),
             operands |-> <<self, other>>,
             patch   |-> IF r.ret = 0 THEN r.acc ELSE NoFile,
             written |-> r.acc.blocks]
    IN  Ret(Deliver(DiffStream(Content(self), Content(other)), 1,
                    MMBlocks_new, MMBlocks_new, 0, failAt, TRUE))

\* An apply_patch whose two output structures are exchanged.
apply_patch_swapped(self, mmpatch, failAt) ==
    LET Ret(e, r) ==
            LET patch_result == IF e.rc < 0 \/ r.ret < 0 THEN -1 ELSE e.rc
            IN  [ok       |-> patch_result = 0,
                 rc       |-> patch_result,
                 wfail    |-> e.rc >= 0 /\ r.ret < 0,
                 operands |-> <<self, mmpatch>>,
                 patched  |-> to_mmfile(r.rej),
                 rejected |-> to_mmfile(r.acc)]
        Run(e) == Ret(e, Deliver(e.emit, 1, MMBlocks_new, MMBlocks_new, 0,
                                 failAt, FALSE))
    IN  Run(xdl_patch_emit(Content(self), Content(mmpatch)))

\* An apply_patch whose two output structures both write to `patched`.
apply_patch_unsplit(self, mmpatch, failAt) ==
    LET Ret(e, r) ==
            LET patch_result == IF e.rc < 0 \/ r.ret < 0 THEN -1 ELSE e.rc
            IN  [ok       |-> patch_result = 0,
                 rc       |-> patch_result,
                 wfail    |-> e.rc >= 0 /\ r.ret < 0,
                 operands |-> <<self, mmpatch>>,
                 patched  |-> to_mmfile(r.acc),
                 rejected |-> to_mmfile(r.rej)]
        Run(e) ==
            Ret(e, Deliver([x \in 1..Len(e.emit) |->
                               [s |-> "acc", bufs |-> e.emit[x].bufs]],
                           1, MMBlocks_new, MMBlocks_new, 0, failAt, FALSE))
    IN  Run(xdl_patch_emit(Content(self), Content(mmpatch)))

\* An apply_patch that returns Ok for every status that is not negative.
apply_patch_lenient(self, mmpatch, failAt) ==
    LET Ret(e, r) ==
            LET patch_result == IF e.rc < 0 \/ r.ret < 0 THEN -1 ELSE e.rc
            IN  [ok       |-> patch_result >= 0,
                 rc       |-> patch_result,
                 wfail    |-> e.rc >= 0 /\ r.ret < 0,
                 operands |-> <<self, mmpatch>>,
                 patched  |-> to_mmfile(r.acc),
                 rejected |-> to_mmfile(r.rej)]
        Run(e) == Ret(e, Deliver(e.emit, 1, MMBlocks_new, MMBlocks_new, 0,
                                 failAt, FALSE))
    IN  Run(xdl_patch_emit(Content(self), Content(mmpatch)))

\* An apply_patch that returns Ok for every status that is not positive.
apply_patch_forgiving(self, mmpatch, failAt) ==
    LET Ret(e, r) ==
            LET patch_result == IF e.rc < 0 \/ r.ret < 0 THEN -1 ELSE e.rc
            IN  [ok       |-> patch_result <= 0,
                 rc       |-> patch_result,
                 wfail    |-> e.rc >= 0 /\ r.ret < 0,
                 operands |-> <<self, mmpatch>>,
                 patched  |-> to_mmfile(r.acc),
                 rejected |-> to_mmfile(r.rej)]
        Run(e) == Ret(e, Deliver(e.emit, 1, MMBlocks_new, MMBlocks_new, 0,
                                 failAt, FALSE))
    IN  Run(xdl_patch_emit(Content(self), Content(mmpatch)))

\* An apply_patch whose emit structure points at self instead of the new
\* `patched`.
apply_patch_inplace(self, mmpatch, failAt) ==
    LET Ret(e, r) ==
            LET patch_result == IF e.rc < 0 \/ r.ret < 0 THEN -1 ELSE e.rc
            IN  [ok       |-> patch_result = 0,
                 rc       |-> patch_result,
                 wfail    |-> e.rc >= 0 /\ r.ret < 0,
                 operands |-> <<r.acc, mmpatch>>,
                 patched  |-> to_mmfile(MMBlocks_new),
                 rejected |-> to_mmfile(r.rej)]
        Run(e) == Ret(e, Deliver(e.emit, 1, self, MMBlocks_new, 0,
                                 failAt, FALSE))
    IN  Run(xdl_patch_emit(Content(self), Content(mmpatch)))

\* MMFile::apply_patch: Ok(patched) when xdl_patch returns 0, else
\* Err((patched, rejected)); both outputs are compacted.  operands: self
\* and the patch as the call leaves them (the two output structures point
\* at the locals `patched` and `rejected`; xdl_patch reads its two files).
apply_patch(self, mmpatch, failAt) ==
    LET Ret(e, r) ==
            LET patch_result == IF e.rc < 0 \/ r.ret < 0 THEN -1 ELSE e.rc
            IN  [ok       |-> patch_result = 0,
                 rc       |-> patch_result,
                 wfail    |-> e.rc >= 0 /\ r.ret < 0,
                 operands |-> <<self, mmpatch>>,
                 patched  |-> to_mmfile(r.acc),
                 rejected |-> to_mmfile(r.rej)]
        Run(e) == Ret(e, Deliver(e.emit, 1, MMBlocks_new, MMBlocks_new, 0,
                                 failAt, FALSE))
    IN  Run(xdl_patch_emit(Content(self), Content(mmpatch)))

\* ----------------------------------------------------------------- inputs
Byte == {"a", NL}

\* Byte sequences of at most n bytes.
ByteSeqs(n) == UNION {[1..k -> Byte] : k \in 0..n}

\* Files of newline-terminated lines, of at most n bytes.
TextFiles(n) == {s \in ByteSeqs(n) : s = <<>> \/ s[Len(s)] = NL}

\* g distinct unchanged lines: "b\n", "bb\n", ...
GapLines(g) == Concat([i \in 1..g |-> [k \in 1..i |-> "b"] \o <<NL>>])

\* What stands before and after the unchanged lines of a long operand.
Edits == {<<>>, <<"a", NL>>, <<"-", NL>>, <<"a", "a", NL>>}

MinGap == MaxGap - 2

\* Pairs of files of newline-terminated lines: all short pairs, and long
\* pairs that differ at the top and at the bottom around MinGap..MaxGap
\* unchanged lines.
TextPairs ==
    (TextFiles(MaxTextLen) \X TextFiles(MaxTextLen))
    \cup {<<pa \o GapLines(g) \o sa, pb \o GapLines(g) \o sb>> :
              <<pa, pb, sa, sb, g>> \in
                  Edits \X Edits \X Edits \X Edits \X (MinGap..MaxGap)}

\* Operand pairs of diff_raw: the pairs above, and every short byte
\* sequence (terminated or not) against itself.
DiffPairs == TextPairs \cup {<<d, d>> : d \in ByteSeqs(MaxLen)}

\* Operand pairs of compute_patch.
PatchPairs == TextPairs

\* The regions of a merge operand stand at least ctxlen unchanged lines
\* apart, as in the tests (tests.rs, merge3_simple), so that the context of
\* a hunk of one region holds no line of the other.
MinMergeGap == ctxlen

\* Operands <<base, side1, side2>> of a merge: a top region and a bottom
\* region, each in its base, side1 and side2 version, around unchanged lines.
MergeTriples ==
    {<<t[1] \o GapLines(g) \o b[1], t[2] \o GapLines(g) \o b[2],
       t[3] \o GapLines(g) \o b[3]>> :
         <<t, b, g>> \in (Edits \X Edits \X Edits)
                            \X (Edits \X Edits \X Edits)
                            \X (MinMergeGap..MaxMergeGap)}

\* The regions of a merge operand: the bytes before its first unchanged
\* line, its unchanged lines, and the bytes after the last of them.
GapFirst(s) == CHOOSE k \in 1..Len(s) :
                   s[k] = "b" /\ \A m \in 1..(k - 1) : s[m] # "b"
GapLast(s) == CHOOSE k \in 1..Len(s) :
                  s[k] = "b" /\ \A m \in (k + 1)..Len(s) : s[m] # "b"
Top(s) == SubSeq(s, 1, GapFirst(s) - 1)
Middle(s) == SubSeq(s, GapFirst(s), GapLast(s) + 1)
Bottom(s) == SubSeq(s, GapLast(s) + 2, Len(s))

\* ------------------------------------------------------------------ state
VARIABLES
    pc,              \* where the caller stands
    data, data2, data3,   \* the bytes the operands were built from
    f, f2, f3,       \* the operand files (mmfile_t)
    wret,            \* what the last xdl_write_mmfile of a constructor returned
    obs,             \* what size() and as_slice() last returned
    todo,            \* what the running engine has still to deliver
    lines,           \* the buffers pushed by the (accept) callback
    lines_rejected,  \* the buffers pushed by the reject callback
    calls, rcalls,   \* invocations of the (accept) and of the reject callback
    panicK,          \* the invocation at which a callback panicked (0: none)
    panicIn,         \* the callback that panicked: "acc", "rej" or ""
    snap,            \* <<calls, rcalls, lines, lines_rejected>> at the panic
    err,             \* the status the engine returns
    result,          \* the Result returned to the caller
    patch,           \* the MMPatch of compute_patch
    patched, rejected,    \* the two outputs of apply_patch
    mutated,         \* whether f was written to after compute_patch
    wfail,           \* whether a write_buf of apply_patch returned -1
    mi, mv,          \* the index and the byte of the last write through
                     \* as_slice_mut (mi = 0: none yet)
    before,          \* the file as it was before that write
    lines0,          \* what the callback was given by the diff before it
    b1, b2,          \* two MMBlocks / MMFile with their block addresses
    kinds,           \* what b1 and b2 are: "blocks" or "file" (after
                     \* to_mmfile)
    cloned,          \* whether b2 was made by b1.clone()
    INITIALIZED,     \* static INITIALIZED: AtomicBool
    tpc,             \* where each thread stands in ensure_init
    ncalls,          \* ensure_init calls each thread has made
    installed,       \* xdl_set_allocator has completed
    inits,           \* executions of init()
    atret,           \* the allocator at each thread's last return
    ctor,            \* the constructor that is running ("": none)
    cpos,            \* how many of its calls it has made
    nctor,           \* constructors that have returned
    early,           \* <<constructor, call>>: calls into libxdiff made
                     \* while the allocator was not installed
    nalloc,          \* blocks allocated so far (the last address given out)
    eqres,           \* what the last eq returned
    freed,           \* freed[a]: how often block a was released
    okbytes,         \* the bytes of the write_buf calls on b1 and on b2
                     \* that returned 0
    lastop           \* the last operation: its name, its receiver (1 or 2),
                     \* the receiver as it was before

vars == <<pc, data, data2, data3, f, f2, f3, wret, obs, todo, lines,
          lines_rejected, calls, rcalls, panicK, panicIn, snap, err, result,
          patch, patched, rejected, mutated, wfail, mi, mv, before, lines0,
          b1, b2, kinds, cloned, nalloc, eqres, lastop, INITIALIZED, tpc,
          ncalls, installed, inits, atret, freed, okbytes, ctor, cpos, nctor,
          early>>

\* No MMBlocks has been made.
NoBlocks == [mm |-> NoFile, at |-> <<>>]

NoObs == [size |-> -1, read |-> FALSE, slice |-> <<>>, panic |-> FALSE]

Init ==
    /\ pc = "idle"
    /\ data = <<>> /\ data2 = <<>> /\ data3 = <<>>
    /\ f = NoFile /\ f2 = NoFile /\ f3 = NoFile
    /\ wret = 0
    /\ obs = NoObs
    /\ todo = <<>>
    /\ lines = <<>> /\ lines_rejected = <<>>
    /\ calls = 0 /\ rcalls = 0
    /\ panicK = 0 /\ panicIn = ""
    /\ snap = <<0, 0, <<>>, <<>>>>
    /\ err = 0
    /\ result = Ok
    /\ patch = NoFile /\ patched = NoFile /\ rejected = NoFile
    /\ mutated = FALSE
    /\ wfail = FALSE
    /\ mi = 0 /\ mv = NL /\ before = NoFile /\ lines0 = <<>>
    /\ b1 = NoBlocks /\ b2 = NoBlocks
    /\ kinds = <<"blocks", "blocks">>
    /\ cloned = FALSE
    /\ nalloc = 0
    /\ INITIALIZED = FALSE
    /\ tpc = [t \in 1..MaxThreads |-> "idle"]
    /\ ncalls = [t \in 1..MaxThreads |-> 0]
    /\ installed = FALSE
    /\ inits = 0
    /\ atret = [t \in 1..MaxThreads |-> "none"]
    /\ eqres = FALSE
    /\ ctor = "" /\ cpos = 0 /\ nctor = 0 /\ early = {}
    /\ freed = [a \in 1..MaxAlloc |-> 0]
    /\ okbytes = <<0, 0>>
    /\ lastop = [op |-> "", who |-> 0, was |-> NoBlocks]

engineVars == <<todo, lines, lines_rejected, calls, rcalls, panicK, panicIn,
                snap, err, result>>
patchVars == <<patch, patched, rejected, mutated, wfail>>
mutVars == <<mi, mv, before, lines0>>
\* The variables of the other specifications, which the actions of
\* SpecFile, SpecDiff, SpecPatch and SpecMerge leave alone.
lifeVars == <<freed, okbytes>>
blkVars == <<b1, b2, kinds, cloned, nalloc, eqres, lastop, lifeVars>>
ctorVars == <<ctor, cpos, nctor, early>>
initVars == <<INITIALIZED, tpc, ncalls, installed, inits, atret, ctorVars>>
extVars == <<mutVars, blkVars, initVars>>

\* ----------------------------------------------------- construction (C10)
\* let f = MMFile::new()
New ==
    /\ pc = "idle"
    /\ f' = MMFile_new
    /\ data' = <<>>
    /\ pc' = "made"
    /\ UNCHANGED <<extVars, data2, data3, f2, f3, wret, obs, engineVars,
                   patchVars>>

\* let f = MMFile::from_bytes(d), the write returning w
FromBytes ==
    /\ pc = "idle"
    /\ \E d \in ByteSeqs(MaxLen) : \E w \in WriteOutcomes(d) :
          LET r == from_bytes(d, w)
          IN  /\ data' = d
              /\ wret' = w
              /\ f' = r.file
              /\ pc' = IF r.panic THEN "panicked" ELSE "made"
    /\ UNCHANGED <<extVars, data2, data3, f2, f3, obs, engineVars, patchVars>>

\* f.size()
Size ==
    /\ pc = "made"
    /\ obs' = [obs EXCEPT !.size = size(f)]
    /\ UNCHANGED <<extVars, pc, data, data2, data3, f, f2, f3, wret,
                   engineVars, patchVars>>

\* f.as_slice()
AsSlice ==
    /\ pc = "made"
    /\ LET r == as_slice(f)
       IN  obs' = [obs EXCEPT !.read = TRUE, !.slice = r.slice,
                             !.panic = r.panic]
    /\ UNCHANGED <<extVars, pc, data, data2, data3, f, f2, f3, wret,
                   engineVars, patchVars>>

NextFile == New \/ FromBytes \/ Size \/ AsSlice

SpecFile == Init /\ [][NextFile]_vars

\* ------------------------------------------------------------- diff_raw
\* f.diff_raw(&mut f2, |line| lines.push(line.to_owned())), the closure
\* free to panic: xdl_diff starts.
DiffRaw ==
    /\ pc = "idle"
    /\ \E p \in DiffPairs :
          /\ data' = p[1] /\ data2' = p[2]
          /\ f' = from_bytes(p[1], Len(p[1])).file
          /\ f2' = from_bytes(p[2], Len(p[2])).file
          /\ todo' = xdl_diff_emit(Content(f'), Content(f2'))
    /\ pc' = "diff"
    /\ UNCHANGED <<extVars, data3, f3, wret, obs, lines, lines_rejected,
                   calls, rcalls, panicK, panicIn, snap, err, result,
                   patchVars>>

\* One call of emit_cb by the engine; a failed call ends the diff with -1.
DiffEmit ==
    /\ pc = "diff" /\ todo # <<>> /\ err = 0
    /\ \E px \in 0..Len(Head(todo)) :
          \E r \in {emit_cb(Head(todo), 1, px, CbStart)} :
              /\ lines' = lines \o r.pushed
              /\ calls' = calls + r.calls
              /\ err' = IF r.ret < 0 THEN -1 ELSE 0
              /\ IF r.panicked /\ panicK = 0
                 THEN /\ panicK' = calls + px
                      /\ panicIn' = "acc"
                      /\ snap' = <<calls + px, rcalls,
                                   lines \o SubSeq(Head(todo), 1, px - 1),
                                   lines_rejected>>
                 ELSE UNCHANGED <<panicK, panicIn, snap>>
    /\ todo' = Tail(todo)
    /\ UNCHANGED <<extVars, pc, data, data2, data3, f, f2, f3, wret, obs,
                   lines_rejected, rcalls, result, patchVars>>

\* xdl_diff returns and diff_raw makes its Result.
DiffReturn ==
    /\ pc = "diff" /\ (todo = <<>> \/ err # 0)
    /\ result' = diff_raw_result(err)
    /\ pc' = "done"
    /\ UNCHANGED <<extVars, data, data2, data3, f, f2, f3, wret, obs, todo,
                   lines, lines_rejected, calls, rcalls, panicK, panicIn,
                   snap, err, patchVars>>

NextDiff == DiffRaw \/ DiffEmit \/ DiffReturn

SpecDiff == Init /\ [][NextDiff]_vars

\* ------------------------------------------- compute_patch / apply_patch
\* let mut patch = f.compute_patch(&mut f2): write failAt of the patch finds
\* no memory (0: every write succeeds).  `lines` is what the closure has
\* written to its local `patch` when compute_patch returns.
ComputePatch ==
    /\ pc = "idle"
    /\ \E p \in PatchPairs : \E failAt \in 0..MaxFail :
          /\ data' = p[1] /\ data2' = p[2]
          /\ \E r \in {compute_patch(from_bytes(p[1], Len(p[1])).file,
                                     from_bytes(p[2], Len(p[2])).file,
                                     failAt)} :
                /\ f' = r.operands[1]
                /\ f2' = r.operands[2]
                /\ patch' = r.patch
                /\ lines' = r.written
                /\ result' = r.result
                /\ pc' = IF r.result.ok THEN "computed" ELSE "failed"
    /\ UNCHANGED <<extVars, data3, f3, wret, obs, todo, lines_rejected,
                   calls, rcalls, panicK, panicIn, snap, err, patched,
                   rejected, mutated, wfail>>

\* f.as_slice_mut()[i] = v, between the two calls.
Mutate ==
    /\ pc = "computed" /\ ~mutated
    /\ \E i \in 1..Min(MaxMut, Len(as_slice(f).slice)) : \E v \in Byte :
          /\ v # as_slice(f).slice[i]
          /\ f' = as_slice_mut_set(f, i, v)
    /\ mutated' = TRUE
    /\ UNCHANGED <<extVars, pc, data, data2, data3, f2, f3, wret, obs,
                   engineVars, patch, patched, rejected, wfail>>

\* Patch texts not made by compute_patch: a file without a header, a hunk
\* with a line missing, a cut header, a line with no tag, a hunk in order
\* followed by one with a line missing; and, in order, the deletion of the
\* line "a", alone and followed by the deletion of a line "aa".
PatchTexts ==
    LET del  == HunkHeader(1, 1, 1, 0) \o <<"-", "a", NL>>
        del2 == HunkHeader(2, 1, 1, 0) \o <<"-", "a", "a", NL>>
    IN  { <<"a", NL>>,
          HunkHeader(1, 1, 1, 1) \o <<"-", "a", NL>>,
          <<"@", "@", " ", "-", "1", ",", "1", " ", "@", "@", NL>>
              \o <<"-", "a", NL>>,
          del \o <<"x", "a", NL>>,
          del \o HunkHeader(2, 1, 1, 1) \o <<"-", "a", NL>>,
          del,
          del \o del2 }

\* MMBlocks::from_bytes(bytes) with the write writing every byte.
MMBlocks_from_bytes(bytes) == write_buf(MMBlocks_new, bytes, Len(bytes)).self

\* let mut f = MMFile::from_bytes(d); let mut patch =
\* MMPatch::from_bytes(t): a patch that did not come from compute_patch.
PatchFromBytes ==
    /\ pc = "idle"
    /\ \E d \in TextFiles(MaxTextLen) : \E t \in PatchTexts :
          /\ data' = d
          /\ f' = from_bytes(d, Len(d)).file
          /\ patch' = MMBlocks_from_bytes(t)
    /\ pc' = "given"
    /\ UNCHANGED <<extVars, data2, data3, f2, f3, wret, obs, engineVars,
                   patched, rejected, mutated, wfail>>

\* f.apply_patch(&mut patch): write failAt of the outputs finds no memory.
\* `rejected` is the local of that name at the return, kept or not.
ApplyPatch ==
    /\ pc \in {"computed", "given"}
    /\ \E failAt \in 0..MaxFail :
          \E r \in {apply_patch(f, patch, failAt)} :
              /\ f' = r.operands[1]
              /\ patch' = r.operands[2]
              /\ patched' = r.patched
              /\ rejected' = r.rejected
              /\ err' = r.rc
              /\ wfail' = r.wfail
              /\ result' = IF r.ok THEN Ok ELSE Err("", r.rc)
    /\ pc' = IF pc = "computed" THEN "applied" ELSE "tried"
    /\ UNCHANGED <<extVars, data, data2, data3, f2, f3, wret, obs, todo,
                   lines, lines_rejected, calls, rcalls, panicK, panicIn,
                   snap, mutated>>

NextPatch == ComputePatch \/ Mutate \/ PatchFromBytes \/ ApplyPatch

SpecPatch == Init /\ [][NextPatch]_vars

\* ------------------------------------------------------------ merge3_raw
\* MMFile::merge3_raw(&mut f, &mut f2, &mut f3, accept, reject) with f the
\* base, both closures pushing onto their Vec and free to panic: xdl_merge3
\* starts.
Merge3Raw ==
    /\ pc = "idle"
    /\ \E t \in MergeTriples :
          /\ data' = t[1] /\ data2' = t[2] /\ data3' = t[3]
          /\ f' = from_bytes(t[1], Len(t[1])).file
          /\ f2' = from_bytes(t[2], Len(t[2])).file
          /\ f3' = from_bytes(t[3], Len(t[3])).file
          /\ todo' = merge3_raw_call(f', f2', f3')
    /\ pc' = "merge"
    /\ UNCHANGED <<extVars, wret, obs, lines, lines_rejected, calls, rcalls,
                   panicK, panicIn, snap, err, result, patchVars>>

\* One call of emit_cb (accepted lines) by the engine.
MergeEmit ==
    /\ pc = "merge" /\ todo # <<>> /\ err = 0 /\ Head(todo).s = "acc"
    /\ \E px \in 0..Len(Head(todo).bufs) :
          \E r \in {merge3_emit_cb(Head(todo).bufs, 1, px, CbStart)} :
              /\ lines' = lines \o r.pushed
              /\ calls' = calls + r.calls
              /\ err' = IF r.ret < 0 THEN -1 ELSE 0
              /\ IF r.panicked /\ panicK = 0
                 THEN /\ panicK' = calls + rcalls + px
                      /\ panicIn' = "acc"
                      /\ snap' = <<calls + px, rcalls,
                                   lines \o SubSeq(Head(todo).bufs, 1, px - 1),
                                   lines_rejected>>
                 ELSE UNCHANGED <<panicK, panicIn, snap>>
    /\ todo' = Tail(todo)
    /\ UNCHANGED <<extVars, pc, data, data2, data3, f, f2, f3, wret, obs,
                   lines_rejected, rcalls, result, patchVars>>

\* One call of reject_cb (lines of a rejected hunk) by the engine.
MergeReject ==
    /\ pc = "merge" /\ todo # <<>> /\ err = 0 /\ Head(todo).s = "rej"
    /\ \E px \in 0..Len(Head(todo).bufs) :
          \E r \in {reject_cb(Head(todo).bufs, 1, px, CbStart)} :
              /\ lines_rejected' = lines_rejected \o r.pushed
              /\ rcalls' = rcalls + r.calls
              /\ err' = IF r.ret < 0 THEN -1 ELSE 0
              /\ IF r.panicked /\ panicK = 0
                 THEN /\ panicK' = calls + rcalls + px
                      /\ panicIn' = "rej"
                      /\ snap' = <<calls, rcalls + px, lines,
                                   lines_rejected
                                       \o SubSeq(Head(todo).bufs, 1, px - 1)>>
                 ELSE UNCHANGED <<panicK, panicIn, snap>>
    /\ todo' = Tail(todo)
    /\ UNCHANGED <<extVars, pc, data, data2, data3, f, f2, f3, wret, obs,
                   lines, calls, result, patchVars>>

\* xdl_merge3 returns and merge3_raw makes its Result.
MergeReturn ==
    /\ pc = "merge" /\ (todo = <<>> \/ err # 0)
    /\ result' = merge3_raw_result(err)
    /\ pc' = "done"
    /\ UNCHANGED <<extVars, data, data2, data3, f, f2, f3, wret, obs, todo,
                   lines, lines_rejected, calls, rcalls, panicK, panicIn,
                   snap, err, patchVars>>

NextMerge == Merge3Raw \/ MergeEmit \/ MergeReject \/ MergeReturn

SpecMerge == Init /\ [][NextMerge]_vars

\* ------------------------------------- as_slice_mut between two diffs
\* The bytes a test writes through as_slice_mut.
MutBytes == Byte \cup {"j"}

\* Whether the bytes s are newline-terminated lines.
IsText(s) == IF s = <<>> THEN TRUE ELSE s[Len(s)] = NL

\* f.diff_raw(&mut f2, |line| lines.push(line.to_owned())) run to its end
\* with a closure that does not panic: what the closure has pushed.
diff_raw_lines(self, other) ==
    LET Run(bs) ==
            Concat([x \in 1..Len(bs) |-> emit_cb(bs[x], 1, 0, CbStart).pushed])
    IN  Run(xdl_diff_emit(Content(self), Content(other)))

\* let mut f = MMFile::from_bytes(data); let mut f2 = ...
MutMake ==
    /\ pc = "idle"
    /\ \E p \in TextFiles(MaxTextLen) \X TextFiles(MaxTextLen) :
          /\ data' = p[1] /\ data2' = p[2]
          /\ f' = from_bytes(p[1], Len(p[1])).file
          /\ f2' = from_bytes(p[2], Len(p[2])).file
    /\ pc' = "two"
    /\ UNCHANGED <<data3, f3, wret, obs, engineVars, patchVars, mutVars,
                   blkVars, initVars>>

\* f.diff_raw(&mut f2, ..) with a fresh Vec, before or after the write.
MutDiffRaw ==
    /\ pc \in {"two", "written"}
    /\ IsText(Content(f2))
    /\ \E r \in {diff_raw_lines(f, f2)} :
          /\ lines' = r
          /\ calls' = Len(r)
    /\ lines0' = lines
    /\ result' = diff_raw_result(0)
    /\ pc' = IF pc = "two" THEN "diffed" ELSE "rediffed"
    /\ UNCHANGED <<data, data2, data3, f, f2, f3, wret, obs, todo,
                   lines_rejected, rcalls, panicK, panicIn, snap, err,
                   patchVars, mi, mv, before, blkVars, initVars>>

\* f2.as_slice_mut()[i - 1] = v
MutWrite ==
    /\ pc \in {"two", "diffed"}
    /\ \E i \in 1..Len(as_slice(f2).slice) : \E v \in MutBytes :
          /\ v # as_slice(f2).slice[i]
          /\ f2' = as_slice_mut_set(f2, i, v)
          /\ mi' = i /\ mv' = v
    /\ before' = f2
    /\ pc' = "written"
    /\ UNCHANGED <<data, data2, data3, f, f3, wret, obs, engineVars,
                   patchVars, lines0, blkVars, initVars>>

\* f2.size() and f2.as_slice(), after the write.
MutRead ==
    /\ pc \in {"written", "rediffed"}
    /\ \E r \in {as_slice(f2)} :
          obs' = [size |-> size(f2), read |-> TRUE, slice |-> r.slice,
                  panic |-> r.panic]
    /\ UNCHANGED <<pc, data, data2, data3, f, f2, f3, wret, engineVars,
                   patchVars, mutVars, blkVars, initVars>>

NextMut == MutMake \/ MutDiffRaw \/ MutWrite \/ MutRead

SpecMut == Init /\ [][NextMut]_vars

\* ------------------------------------------------- MMBlocks and eq
\* The buffers handed to MMBlocks::write_buf: empty, one byte, two bytes.
WriteBufs == {<<>>, <<"a">>, <<NL>>, <<"a", "a">>, <<"a", NL>>}

\* The fields other than the two MMBlocks that SpecBlocks leaves alone.
blkFrame ==
    <<data3, f, f2, f3, wret, obs, engineVars, patchVars, mutVars, initVars,
      lifeVars>>

\* let mut b1 = MMBlocks::new(); let mut b2 = MMBlocks::new();
BlkNew ==
    /\ pc = "idle"
    /\ b1' = [mm |-> MMBlocks_new, at |-> <<>>]
    /\ b2' = [mm |-> MMBlocks_new, at |-> <<>>]
    /\ pc' = "blocks"
    /\ UNCHANGED <<data, data2, kinds, cloned, nalloc, eqres, lastop,
                   blkFrame>>

\* b.write_buf(buf), the whole of buf being written.
BlkWrite ==
    /\ pc = "blocks" /\ nalloc < MaxAlloc
    /\ \E buf \in WriteBufs :
          \/ /\ kinds[1] = "blocks" /\ Len(b1.at) < MaxBlocks
             /\ b1' = write_buf_at(b1, buf, nalloc + 1)
             /\ data' = data \o buf
             /\ nalloc' = nalloc + Len(b1'.at) - Len(b1.at)
             /\ lastop' = [op |-> "write", who |-> 1, was |-> b1]
             /\ UNCHANGED <<b2, data2>>
          \/ /\ kinds[2] = "blocks" /\ Len(b2.at) < MaxBlocks
             /\ b2' = write_buf_at(b2, buf, nalloc + 1)
             /\ data2' = data2 \o buf
             /\ nalloc' = nalloc + Len(b2'.at) - Len(b2.at)
             /\ lastop' = [op |-> "write", who |-> 2, was |-> b2]
             /\ UNCHANGED <<b1, data>>
    /\ UNCHANGED <<pc, kinds, cloned, eqres, blkFrame>>

\* let mut b2 = b1.clone(); (the MMBlocks b2 held before is dropped)
BlkClone ==
    /\ pc = "blocks" /\ nalloc < MaxAlloc
    /\ kinds[1] = "blocks"
    /\ b2' = clone(b1, nalloc + 1)
    /\ data2' = data
    /\ kinds' = <<kinds[1], "blocks">>
    /\ cloned' = TRUE
    /\ nalloc' = nalloc + 1
    /\ lastop' = [op |-> "clone", who |-> 1, was |-> b1]
    /\ UNCHANGED <<pc, b1, data, eqres, blkFrame>>

\* b.to_compact()
BlkCompact ==
    /\ pc = "blocks" /\ nalloc < MaxAlloc
    /\ \/ /\ kinds[1] = "blocks"
          /\ b1' = to_compact_at(b1, nalloc + 1)
          /\ nalloc' = IF b1'.at = b1.at THEN nalloc ELSE nalloc + 1
          /\ lastop' = [op |-> "compact", who |-> 1, was |-> b1]
          /\ UNCHANGED b2
       \/ /\ kinds[2] = "blocks"
          /\ b2' = to_compact_at(b2, nalloc + 1)
          /\ nalloc' = IF b2'.at = b2.at THEN nalloc ELSE nalloc + 1
          /\ lastop' = [op |-> "compact", who |-> 2, was |-> b2]
          /\ UNCHANGED b1
    /\ UNCHANGED <<pc, data, data2, kinds, cloned, eqres, blkFrame>>

\* let mut b = b.to_mmfile();
BlkToMMFile ==
    /\ pc = "blocks" /\ nalloc < MaxAlloc
    /\ \/ /\ kinds[1] = "blocks"
          /\ b1' = to_mmfile_at(b1, nalloc + 1)
          /\ nalloc' = IF b1'.at = b1.at THEN nalloc ELSE nalloc + 1
          /\ kinds' = <<"file", kinds[2]>>
          /\ lastop' = [op |-> "to_mmfile", who |-> 1, was |-> b1]
          /\ UNCHANGED b2
       \/ /\ kinds[2] = "blocks"
          /\ b2' = to_mmfile_at(b2, nalloc + 1)
          /\ nalloc' = IF b2'.at = b2.at THEN nalloc ELSE nalloc + 1
          /\ kinds' = <<kinds[1], "file">>
          /\ lastop' = [op |-> "to_mmfile", who |-> 2, was |-> b2]
          /\ UNCHANGED b1
    /\ UNCHANGED <<pc, data, data2, cloned, eqres, blkFrame>>

\* b.as_slice_mut()[i - 1] = v on an MMFile: the byte is written to the
\* block the file points at.
BlkPoke ==
    /\ pc = "blocks"
    /\ \/ /\ kinds[1] = "file"
          /\ \E i \in 1..Len(as_slice(b1.mm).slice) : \E v \in Byte :
                /\ v # as_slice(b1.mm).slice[i]
                /\ b1' = WriteMem(b1, b1.at[1], i, v)
                /\ b2' = WriteMem(b2, b1.at[1], i, v)
                /\ data' = [data EXCEPT ![i] = v]
          /\ lastop' = [op |-> "poke", who |-> 1, was |-> b1]
          /\ UNCHANGED data2
       \/ /\ kinds[2] = "file"
          /\ \E i \in 1..Len(as_slice(b2.mm).slice) : \E v \in Byte :
                /\ v # as_slice(b2.mm).slice[i]
                /\ b2' = WriteMem(b2, b2.at[1], i, v)
                /\ b1' = WriteMem(b1, b2.at[1], i, v)
                /\ data2' = [data2 EXCEPT ![i] = v]
          /\ lastop' = [op |-> "poke", who |-> 2, was |-> b2]
          /\ UNCHANGED data
    /\ UNCHANGED <<pc, kinds, cloned, nalloc, eqres, blkFrame>>

\* b1.eq(&mut b2): MMBlocks::eq on two MMBlocks, MMFile::eq on two MMFiles.
BlkEq ==
    /\ pc = "blocks" /\ kinds[1] = kinds[2]
    /\ eqres' = IF kinds[1] = "file" THEN MMFile_eq(b1.mm, b2.mm)
                ELSE MMBlocks_eq(b1.mm, b2.mm)
    /\ lastop' = [op |-> "eq", who |-> 1, was |-> b1]
    /\ UNCHANGED <<pc, b1, b2, data, data2, kinds, cloned, nalloc,
                   blkFrame>>

NextBlocks ==
    BlkNew \/ BlkWrite \/ BlkClone \/ BlkCompact \/ BlkToMMFile \/ BlkPoke
        \/ BlkEq

SpecBlocks == Init /\ [][NextBlocks]_vars

\* ------------------------------------------- MMBlocks: writes and release
\* MMBlocks::write_buf(buf) on an MMBlocks with its addresses, the write
\* returning w: the bytes written go to a new block at address fresh.
write_buf_w(o, buf, w, fresh) ==
    LET r == write_buf(o.mm, buf, w)
    IN  [self |-> [mm |-> r.self,
                   at |-> IF w > 0 THEN Append(o.at, fresh) ELSE o.at],
         ret  |-> r.ret]

\* xdl_free_mmfile: the blocks released.
xdl_free_mmfile(o) == o.at

\* What to_compact releases: nothing for a compact file; else the old
\* mmfile_t, which swap has put into new_blocks, dropped at the end.
to_compact_drop(o) ==
    IF MMBlocks_is_compact(o.mm) THEN <<>> ELSE xdl_free_mmfile(o)

\* A to_mmfile without the forget: self is dropped at the end.
to_mmfile_drop_self(o, fresh) ==
    to_compact_drop(o) \o xdl_free_mmfile(to_compact_at(o, fresh))

\* What to_mmfile releases: what its to_compact releases; `self` is
\* forgotten, so the mmfile_t handed to the MMFile is not released.
to_mmfile_drop(o, fresh) == to_compact_drop(o)

\* freed after the release of the blocks in `addrs`.
Release(fr, addrs) ==
    [a \in DOMAIN fr |->
        fr[a] + Cardinality({k \in 1..Len(addrs) : addrs[k] = a})]

LifeBufs == {<<>>, <<"a">>, <<"a", NL>>}

lifeFrame ==
    <<data3, f, f2, f3, obs, engineVars, patchVars, mutVars, initVars,
      cloned, eqres>>

\* let mut b1 = MMBlocks::new(); (no second object yet)
LifeNew ==
    /\ pc = "idle"
    /\ b1' = [mm |-> MMBlocks_new, at |-> <<>>]
    /\ kinds' = <<"blocks", "none">>
    /\ lastop' = [op |-> "new", who |-> 1, was |-> NoBlocks]
    /\ pc' = "life"
    /\ UNCHANGED <<b2, data, data2, nalloc, wret, freed, okbytes, lifeFrame>>

\* b.write_buf(buf), xdl_write_mmfile returning w.
LifeWrite ==
    /\ pc = "life" /\ nalloc < MaxAlloc
    /\ \E buf \in LifeBufs : \E w \in WriteOutcomes(buf) :
          \/ /\ kinds[1] = "blocks" /\ Len(b1.at) < MaxBlocks
             /\ \E r \in {write_buf_w(b1, buf, w, nalloc + 1)} :
                   /\ b1' = r.self
                   /\ wret' = r.ret
                   /\ okbytes' = <<okbytes[1] + (IF r.ret = 0 THEN Len(buf)
                                                              ELSE 0),
                                   okbytes[2]>>
                   /\ nalloc' = nalloc + Len(r.self.at) - Len(b1.at)
             /\ lastop' = [op |-> "write", who |-> 1, was |-> b1,
                           buf |-> buf, w |-> w]
             /\ UNCHANGED b2
          \/ /\ kinds[2] = "blocks" /\ Len(b2.at) < MaxBlocks
             /\ \E r \in {write_buf_w(b2, buf, w, nalloc + 1)} :
                   /\ b2' = r.self
                   /\ wret' = r.ret
                   /\ okbytes' = <<okbytes[1],
                                   okbytes[2] + (IF r.ret = 0 THEN Len(buf)
                                                              ELSE 0)>>
                   /\ nalloc' = nalloc + Len(r.self.at) - Len(b2.at)
             /\ lastop' = [op |-> "write", who |-> 2, was |-> b2,
                           buf |-> buf, w |-> w]
             /\ UNCHANGED b1
    /\ UNCHANGED <<pc, data, data2, kinds, freed, lifeFrame>>

\* b.to_compact()
LifeCompact ==
    /\ pc = "life" /\ nalloc < MaxAlloc
    /\ \/ /\ kinds[1] = "blocks"
          /\ b1' = to_compact_at(b1, nalloc + 1)
          /\ freed' = Release(freed, to_compact_drop(b1))
          /\ nalloc' = IF b1'.at = b1.at THEN nalloc ELSE nalloc + 1
          /\ lastop' = [op |-> "compact", who |-> 1, was |-> b1]
          /\ UNCHANGED b2
       \/ /\ kinds[2] = "blocks"
          /\ b2' = to_compact_at(b2, nalloc + 1)
          /\ freed' = Release(freed, to_compact_drop(b2))
          /\ nalloc' = IF b2'.at = b2.at THEN nalloc ELSE nalloc + 1
          /\ lastop' = [op |-> "compact", who |-> 2, was |-> b2]
          /\ UNCHANGED b1
    /\ UNCHANGED <<pc, data, data2, kinds, wret, okbytes, lifeFrame>>

\* let mut b2 = b1.clone();
LifeClone ==
    /\ pc = "life" /\ nalloc < MaxAlloc
    /\ kinds[1] = "blocks" /\ kinds[2] = "none"
    /\ b2' = clone(b1, nalloc + 1)
    /\ kinds' = <<kinds[1], "blocks">>
    /\ okbytes' = <<okbytes[1], okbytes[1]>>
    /\ nalloc' = nalloc + Len(b2'.at)
    /\ lastop' = [op |-> "clone", who |-> 1, was |-> b1]
    /\ UNCHANGED <<pc, b1, data, data2, wret, freed, lifeFrame>>

\* let b = b.to_mmfile();
LifeToMMFile ==
    /\ pc = "life" /\ nalloc < MaxAlloc
    /\ \/ /\ kinds[1] = "blocks"
          /\ b1' = to_mmfile_at(b1, nalloc + 1)
          /\ freed' = Release(freed, to_mmfile_drop(b1, nalloc + 1))
          /\ nalloc' = IF b1'.at = b1.at THEN nalloc ELSE nalloc + 1
          /\ kinds' = <<"file", kinds[2]>>
          /\ lastop' = [op |-> "to_mmfile", who |-> 1, was |-> b1]
          /\ UNCHANGED b2
       \/ /\ kinds[2] = "blocks"
          /\ b2' = to_mmfile_at(b2, nalloc + 1)
          /\ freed' = Release(freed, to_mmfile_drop(b2, nalloc + 1))
          /\ nalloc' = IF b2'.at = b2.at THEN nalloc ELSE nalloc + 1
          /\ kinds' = <<kinds[1], "file">>
          /\ lastop' = [op |-> "to_mmfile", who |-> 2, was |-> b2]
          /\ UNCHANGED b1
    /\ UNCHANGED <<pc, data, data2, wret, okbytes, lifeFrame>>

\* drop(b): Drop for MMBlocks and Drop for MMFile call xdl_free_mmfile.
LifeDrop ==
    /\ pc = "life"
    /\ \/ /\ kinds[1] \in {"blocks", "file"}
          /\ freed' = Release(freed, xdl_free_mmfile(b1))
          /\ b1' = NoBlocks
          /\ kinds' = <<"none", kinds[2]>>
          /\ okbytes' = <<0, okbytes[2]>>
          /\ lastop' = [op |-> "drop", who |-> 1, was |-> b1]
          /\ UNCHANGED b2
       \/ /\ kinds[2] \in {"blocks", "file"}
          /\ freed' = Release(freed, xdl_free_mmfile(b2))
          /\ b2' = NoBlocks
          /\ kinds' = <<kinds[1], "none">>
          /\ okbytes' = <<okbytes[1], 0>>
          /\ lastop' = [op |-> "drop", who |-> 2, was |-> b2]
          /\ UNCHANGED b1
    /\ UNCHANGED <<pc, data, data2, nalloc, wret, lifeFrame>>

NextLife ==
    LifeNew \/ LifeWrite \/ LifeCompact \/ LifeClone \/ LifeToMMFile
        \/ LifeDrop

SpecLife == Init /\ [][NextLife]_vars

\* ------------------------------------------------------------ ensure_init
Threads == 1..MaxThreads

\* A compare_exchange that succeeds whatever the value.
compare_exchange_blind(current, expected, new) == [ok |-> TRUE, val |-> new]

\* AtomicBool::compare_exchange(expected, new, ..) on the value current, as
\* one atomic step: Ok and the new value stored when current = expected,
\* else Err and the value left alone.
compare_exchange(current, expected, new) ==
    [ok  |-> current = expected,
     val |-> IF current = expected THEN new ELSE current]

initFrame ==
    <<pc, data, data2, data3, f, f2, f3, wret, obs, engineVars, patchVars,
      mutVars, blkVars, ctorVars>>

\* Thread t calls ensure_init().
EnsureInit(t) ==
    /\ tpc[t] = "idle" /\ ncalls[t] < MaxCalls
    /\ tpc' = [tpc EXCEPT ![t] = "cas"]
    /\ ncalls' = [ncalls EXCEPT ![t] = @ + 1]
    /\ UNCHANGED <<INITIALIZED, installed, inits, atret, initFrame>>

\* INITIALIZED.compare_exchange(false, true, Acquire, Relaxed): on Ok the
\* thread goes on to init(), on Err to the end of the function.
CompareExchange(t) ==
    /\ tpc[t] = "cas"
    /\ \E r \in {compare_exchange(INITIALIZED, FALSE, TRUE)} :
          /\ INITIALIZED' = r.val
          /\ tpc' = [tpc EXCEPT ![t] = IF r.ok THEN "init" ELSE "ret"]
    /\ UNCHANGED <<ncalls, installed, inits, atret, initFrame>>

\* unsafe { init() }: xdl_set_allocator installs the allocator.
InitAllocator(t) ==
    /\ tpc[t] = "init"
    /\ installed' = TRUE
    /\ inits' = inits + 1
    /\ tpc' = [tpc EXCEPT ![t] = "ret"]
    /\ UNCHANGED <<INITIALIZED, ncalls, atret, initFrame>>

\* ensure_init returns to its caller, which goes on to use the library.
Return(t) ==
    /\ tpc[t] = "ret"
    /\ atret' = [atret EXCEPT ![t] = IF installed THEN "installed"
                                                  ELSE "missing"]
    /\ tpc' = [tpc EXCEPT ![t] = "idle"]
    /\ UNCHANGED <<INITIALIZED, ncalls, installed, inits, initFrame>>

NextInit ==
    \E t \in Threads :
        EnsureInit(t) \/ CompareExchange(t) \/ InitAllocator(t) \/ Return(t)

SpecInit == Init /\ [][NextInit]_vars

\* ------------------------------------------------- every way to an MMFile
\* MMFile::new, MMFile::from_bytes, MMBlocks::to_mmfile and apply_patch,
\* with the reads that follow them.
NextPublic == NextFile \/ NextPatch \/ NextBlocks

SpecPublic == Init /\ [][NextPublic]_vars

\* ------------------------------------------- the operations on operands
\* patched.eq(&mut f2), after an apply_patch that returned Ok.
PatchedEq ==
    /\ pc = "applied" /\ result.ok
    /\ eqres' = MMFile_eq(patched, f2)
    /\ pc' = "compared"
    /\ UNCHANGED <<data, data2, data3, f, f2, f3, wret, obs, engineVars,
                   patchVars, mutVars, initVars, lifeVars, b1, b2, kinds,
                   cloned, nalloc, lastop>>

NextOperands == NextDiff \/ NextPatch \/ NextMerge \/ PatchedEq

SpecOperands == Init /\ [][NextOperands]_vars

\* ----------------------------------------------------------- constructors
\* The calls each constructor makes, in the order of its source text.
Constructors ==
    [MMFile_new             |-> <<"init_mmfile">>,
     MMFile_from_bytes      |-> <<"init_mmfile", "ensure_init",
                                  "xdl_write_mmfile">>,
     MMBlocks_new           |-> <<"ensure_init", "init_mmfile">>,
     MMBlocks_from_bytes    |-> <<"ensure_init", "init_mmfile",
                                  "xdl_write_mmfile">>,
     lib_MMFile_new         |-> <<"ensure_init", "xdl_init_mmfile">>,
     lib_MMFile_from_bytes  |-> <<"ensure_init", "xdl_init_mmfile",
                                  "xdl_write_mmfile">>]

ctorFrame ==
    <<pc, data, data2, data3, f, f2, f3, wret, obs, engineVars, patchVars,
      mutVars, blkVars, tpc, ncalls, atret>>

\* Constructor calls in one run of the program.
MaxCtor == 3

\* One thread calls a constructor.
CtorCall ==
    /\ ctor = "" /\ nctor < MaxCtor
    /\ \E c \in DOMAIN Constructors : ctor' = c
    /\ cpos' = 0
    /\ UNCHANGED <<nctor, early, INITIALIZED, installed, inits, ctorFrame>>

\* The constructor makes its next call: ensure_init() as a whole (there is
\* one thread), or a call into libxdiff.
CtorStep ==
    /\ ctor # "" /\ cpos < Len(Constructors[ctor])
    /\ cpos' = cpos + 1
    /\ IF Constructors[ctor][cpos + 1] = "ensure_init"
       THEN \E r \in {compare_exchange(INITIALIZED, FALSE, TRUE)} :
                /\ INITIALIZED' = r.val
                /\ installed' = (installed \/ r.ok)
                /\ inits' = inits + (IF r.ok THEN 1 ELSE 0)
                /\ UNCHANGED early
       ELSE /\ early' = IF installed THEN early
                        ELSE early \cup {<<ctor, Constructors[ctor][cpos + 1]>>}
            /\ UNCHANGED <<INITIALIZED, installed, inits>>
    /\ UNCHANGED <<ctor, nctor, ctorFrame>>

\* The constructor returns its object.
CtorReturn ==
    /\ ctor # "" /\ cpos = Len(Constructors[ctor])
    /\ ctor' = "" /\ cpos' = 0
    /\ nctor' = nctor + 1
    /\ UNCHANGED <<early, INITIALIZED, installed, inits, ctorFrame>>

NextCtor == CtorCall \/ CtorStep \/ CtorReturn

SpecCtor == Init /\ [][NextCtor]_vars

\* ================================================================ claims
\* The bytes delivered so far to the accept and to the reject callback.
Accepted == Concat(lines)
Rejected == Concat(lines_rejected)

C2_IdenticalNoHunks ==
    (pc \in {"diff", "done"} /\ Content(f) = Content(f2))
        => /\ todo = <<>>
           /\ calls = 0 /\ lines = <<>>
           /\ pc = "done" => result = Ok

\* diff_raw has returned for two identical files that do not end in a
\* newline.
C2_Witness ==
    /\ pc = "done" /\ Content(f) = Content(f2)
    /\ Len(data) = MaxLen /\ data[Len(data)] # NL

\* ---- C7 (SpecDiff)
\* C7: once the diff_raw callback has panicked on its k-th invocation, the
\* callback is not invoked again, the k-1 buffers delivered before stay
\* delivered (they are the first k-1 buffers of the diff), and diff_raw
\* returns Err("diff failed with err: -1").
C7_DiffPanic ==
    (pc \in {"diff", "done"} /\ panicK # 0)
        => /\ <<calls, rcalls, lines, lines_rejected>> = snap
           /\ calls = panicK
           /\ lines = SubSeq(Concat(xdl_diff_emit(data, data2)), 1, panicK - 1)
           /\ err = -1
           /\ pc = "done" => result = Err("diff failed with err: ", -1)

\* diff_raw has returned after a panic on the content of the first changed
\* line (the third invocation, as in the test diff_panic).
C7_Witness ==
    /\ pc = "done" /\ panicK = 3 /\ Len(lines) = 2
    /\ result = Err("diff failed with err: ", -1)

\* ---- C9 (SpecDiff)
RECURSIVE Replay(_, _, _, _, _, _, _, _, _)
\* Whether the deliveries L, from number k on, are hunks that turn the
\* lines a (from line i on) into the lines b (from line j on): a header
\* with 1-based starts, then for each line of the hunk its tag and its
\* content as two deliveries, no deletion right after an addition, and
\* equal lines wherever no hunk stands.  c1 and c2 count the old and new
\* lines the running hunk still owes; last is the tag delivered before.
Replay(L, k, a, b, i, j, c1, c2, last) ==
    IF k > Len(L)
    THEN /\ c1 = 0 /\ c2 = 0
         /\ SubSeq(a, i, Len(a)) = SubSeq(b, j, Len(b))
    ELSE IF c1 = 0 /\ c2 = 0
    THEN LET h  == ParseHeader(L[k])
             o1 == IF h.c1 > 0 THEN h.s1 ELSE h.s1 + 1
             o2 == IF h.c2 > 0 THEN h.s2 ELSE h.s2 + 1
         IN  /\ h.ok /\ h.c1 + h.c2 > 0
             /\ o1 >= i /\ o2 >= j /\ o1 - i = o2 - j
             /\ SubSeq(a, i, o1 - 1) = SubSeq(b, j, o2 - 1)
             /\ Replay(L, k + 1, a, b, o1, o2, h.c1, h.c2, "@")
    ELSE /\ k + 1 <= Len(L)
         /\ \/ /\ L[k] = <<" ">> /\ c1 > 0 /\ c2 > 0
               /\ i <= Len(a) /\ j <= Len(b)
               /\ L[k + 1] = a[i] /\ L[k + 1] = b[j]
               /\ Replay(L, k + 2, a, b, i + 1, j + 1, c1 - 1, c2 - 1, " ")
            \/ /\ L[k] = <<"-">> /\ c1 > 0 /\ last # "+"
               /\ i <= Len(a) /\ L[k + 1] = a[i]
               /\ Replay(L, k + 2, a, b, i + 1, j, c1 - 1, c2, "-")
            \/ /\ L[k] = <<"+">> /\ c2 > 0
               /\ j <= Len(b) /\ L[k + 1] = b[j]
               /\ Replay(L, k + 2, a, b, i, j + 1, c1, c2 - 1, "+")

\* C9: what diff_raw has delivered when it returns Ok is, in file order,
\* for each hunk the header "@@ -<old_start>,<old_len> +<new_start>,<new_len>
\* @@\n" with 1-based starts, then for each line of the hunk its tag and
\* its content as two separate deliveries, the deletions of a changed run
\* before its additions; for two one-line files of different content it is
\* exactly ["@@ -1,1 +1,1 @@\n", "-", old line, "+", new line].
C9_Delivery ==
    (pc = "done" /\ panicK = 0)
        => /\ Replay(lines, 1, SplitLines(data), SplitLines(data2),
                     1, 1, 0, 0, "")
           /\ calls = Len(lines)
           /\ (/\ Len(SplitLines(data)) = 1 /\ Len(SplitLines(data2)) = 1
               /\ data # data2)
                  => lines = << <<"@", "@", " ", "-", "1", ",", "1", " ",
                                  "+", "1", ",", "1", " ", "@", "@", NL>>,
                                <<"-">>, data, <<"+">>, data2 >>

\* diff_raw has returned Ok after two hunks, the first of which replaces a
\* line and the second of which deletes one.
C9_Witness ==
    /\ pc = "done" /\ panicK = 0
    /\ Cardinality({k \in 1..Len(lines) : IsHeaderLine(lines[k])}) = 2
    /\ \E k \in 1..(Len(lines) - 2) :
           lines[k] = <<"-">> /\ lines[k + 2] = <<"+">>
    /\ lines[Len(lines) - 1] = <<"-">>

\* ---- C10 (SpecFile)
\* C10: a file made by MMFile::from_bytes(d) has size() = len(d) and
\* as_slice() = d, and so has MMFile::new() with d empty; a construction
\* whose write returned anything but len(d) has panicked and returned no
\* file.
C10_Construct ==
    /\ pc = "made"
          => /\ wret = Len(data)
             /\ size(f) = Len(data)
             /\ ~as_slice(f).panic /\ as_slice(f).slice = data
             /\ obs.size \in {-1, Len(data)}
             /\ obs.read => (obs.slice = data /\ ~obs.panic)
    /\ pc = "panicked" => (wret # Len(data) /\ f = NoFile)
    /\ (pc = "idle" /\ wret = 0) => f = NoFile

\* size() and as_slice() have been called on a file made from the longest
\* byte sequence.
C10_Witness ==
    /\ pc = "made" /\ Len(data) = MaxLen
    /\ obs.size = MaxLen /\ obs.read /\ obs.slice = data

\* An empty file has been made and observed.
C10_WitnessNew ==
    pc = "made" /\ data = <<>> /\ obs.size = 0 /\ obs.read

\* ---- C8 (SpecMerge)
\* C8: once the accept or the reject callback of merge3_raw has panicked,
\* neither callback is invoked again, what both had been given before stays
\* delivered, and merge3_raw returns Err("merge failed with err: -1").
C8_MergePanic ==
    (pc \in {"merge", "done"} /\ panicIn # "")
        => /\ <<calls, rcalls, lines, lines_rejected>> = snap
           /\ calls + rcalls = panicK
           /\ err = -1
           /\ pc = "done" => result = Err("merge failed with err: ", -1)

\* merge3_raw has returned after the accept callback panicked on its
\* third invocation, a hunk having been rejected before.
C8_Witness ==
    /\ pc = "done" /\ panicIn = "acc" /\ calls = 3 /\ Len(lines) = 2
    /\ lines_rejected # <<>>
    /\ result = Err("merge failed with err: ", -1)

\* merge3_raw has returned after the reject callback panicked on its
\* third invocation (as in the test merge3_panic_reject).
C8_WitnessReject ==
    /\ pc = "done" /\ panicIn = "rej" /\ rcalls = 3
    /\ Len(lines_rejected) = 2
    /\ result = Err("merge failed with err: ", -1)

\* ---- merges that ran to their end (C3 - C6, SpecMerge)
\* merge3_raw(base = data, side1 = data2, side2 = data3) has returned and
\* no callback panicked.
MergeDone == pc = "done" /\ panicIn = ""

\* Which side changed which region of base.
TopBy1 == Top(data2) # Top(data)
TopBy2 == Top(data3) # Top(data)
BottomBy1 == Bottom(data2) # Bottom(data)
BottomBy2 == Bottom(data3) # Bottom(data)

\* The unchanged lines between the two regions.
Between == SplitLines(Middle(data))

FirstN(ls, n) == SubSeq(ls, 1, Min(n, Len(ls)))
LastN(ls, n) == SubSeq(ls, Len(ls) - Min(n, Len(ls)) + 1, Len(ls))
Tagged(tag, ls) == [x \in 1..Len(ls) |-> <<tag>> \o ls[x]]

\* ---- C3
\* The hunks of the change from base to side2, as the patch grammar reads
\* them.
ChangeHunks == ParsePatch(DiffText(data, data3)).hunks

\* Hunk hk deletes a base line that does not occur in side1.
DeletesGone(hk) ==
    \E x \in 1..Len(hk.body) :
        /\ hk.body[x].t = "-"
        /\ \A y \in 1..Len(SplitLines(data2)) :
               SplitLines(data2)[y] # hk.body[x].l

SameChange == data2 = data3 /\ data # data2

DisjointEdits ==
    \/ TopBy1 /\ ~BottomBy1 /\ ~TopBy2 /\ BottomBy2
    \/ ~TopBy1 /\ BottomBy1 /\ TopBy2 /\ ~BottomBy2

\* Base with both sides' edits applied, in base line order.
BothEdits ==
    (IF TopBy1 THEN Top(data2) ELSE Top(data3))
        \o Middle(data)
        \o (IF BottomBy1 THEN Bottom(data2) ELSE Bottom(data3))

HasLine(s, l) == \E y \in 1..Len(SplitLines(s)) : SplitLines(s)[y] = l

\* None of the lines of region stands in side1 any more.
GoneFrom1(region) ==
    \A x \in 1..Len(SplitLines(region)) :
        ~HasLine(data2, SplitLines(region)[x])

\* Both sides changed the first region of base, with differing results.
TopClash == TopBy1 /\ TopBy2 /\ Top(data2) # Top(data3)
\* Both sides changed the last region of base, with differing results.
BottomClash == BottomBy1 /\ BottomBy2 /\ Bottom(data2) # Bottom(data3)

\* The same, where the region holds base lines, side1 kept none of them
\* and side2 changed nothing else.
TopConflict ==
    TopClash /\ Top(data) # <<>> /\ GoneFrom1(Top(data)) /\ ~BottomBy2
BottomConflict ==
    BottomClash /\ Bottom(data) # <<>> /\ GoneFrom1(Bottom(data))
        /\ ~TopBy2

\* The lines of base before its last region, and after its first.
BeforeBottom == SplitLines(Top(data) \o Middle(data))
AfterTop == SplitLines(Middle(data) \o Bottom(data))

\* The header of a hunk standing at line s of both files, with c1 old
\* and c2 new lines.
HeaderLine(s, c1, c2) ==
    <<"@", "@", " ", "-">> \o NumOut(s) \o <<",">> \o NumOut(c1)
        \o <<" ", "+">> \o NumOut(IF c2 > 0 THEN s ELSE s - 1)
        \o <<",">> \o NumOut(c2) \o <<" ", "@", "@", NL>>

\* The rejected hunk of a conflict in the first region, as the claim lists
\* it (no line after the additions), and with the following context.
TopHunkStated ==
    <<HeaderLine(1, Len(SplitLines(Top(data))),
                 Len(SplitLines(Top(data3))))>>
        \o Tagged("-", SplitLines(Top(data)))
        \o Tagged("+", SplitLines(Top(data3)))
TopHunk ==
    <<HeaderLine(1,
          Len(SplitLines(Top(data))) + Len(FirstN(AfterTop, ctxlen)),
          Len(SplitLines(Top(data3))) + Len(FirstN(AfterTop, ctxlen)))>>
        \o Tagged("-", SplitLines(Top(data)))
        \o Tagged("+", SplitLines(Top(data3)))
        \o Tagged(" ", FirstN(AfterTop, ctxlen))

\* The rejected hunk of a conflict in the last region.
BottomHunk ==
    <<HeaderLine(Len(BeforeBottom) - Len(LastN(BeforeBottom, ctxlen)) + 1,
          Len(LastN(BeforeBottom, ctxlen)) + Len(SplitLines(Bottom(data))),
          Len(LastN(BeforeBottom, ctxlen))
              + Len(SplitLines(Bottom(data3))))>>
        \o Tagged(" ", LastN(BeforeBottom, ctxlen))
        \o Tagged("-", SplitLines(Bottom(data)))
        \o Tagged("+", SplitLines(Bottom(data3)))

C5_WitnessBottom ==
    /\ MergeDone /\ BottomConflict /\ ~TopBy1
    /\ Bottom(data2) # <<>> /\ Bottom(data3) # <<>>
    /\ rcalls = 3 + ctxlen /\ lines_rejected = BottomHunk

\* ---- C6
\* The conflicting region is the first (last) one and side2 changed
\* nothing else.
OmitsTop == Accepted = Middle(data2) \o Bottom(data2)
OmitsBottom == Accepted = Top(data2) \o Middle(data2)

\* C6 as stated: the accepted stream omits the conflicting region
\* entirely (neither base's, side1's nor side2's content for it) and
\* holds everything outside it.
C6_Original ==
    /\ (MergeDone /\ TopConflict) => OmitsTop
    /\ (MergeDone /\ BottomConflict) => OmitsBottom

\* C6 amended: the accepted stream does not omit the conflicting region:
\* it holds side1's content for the region (not base's, not side2's) in
\* the region's place, and side1's content outside it.
C6_KeepsSide1 ==
    /\ (MergeDone /\ TopConflict)
          => /\ Accepted = Top(data2) \o Middle(data2) \o Bottom(data2)
             /\ Top(data2) # <<>> => ~OmitsTop
             /\ Accepted # Top(data) \o Middle(data2) \o Bottom(data2)
             /\ Accepted # Top(data3) \o Middle(data2) \o Bottom(data2)
    /\ (MergeDone /\ BottomConflict)
          => /\ Accepted = Top(data2) \o Middle(data2) \o Bottom(data2)
             /\ Bottom(data2) # <<>> => ~OmitsBottom
             /\ Accepted # Top(data2) \o Middle(data2) \o Bottom(data)
             /\ Accepted # Top(data2) \o Middle(data2) \o Bottom(data3)

\* A conflict in the last region has ended with side1's line for the
\* region in the accepted stream, as in the test merge3_conflicts.
C6_Witness ==
    /\ MergeDone /\ BottomConflict
    /\ Bottom(data2) # <<>> /\ Bottom(data3) # <<>>
    /\ lines # <<>> /\ lines[Len(lines)] = Bottom(data2)
    /\ ~OmitsBottom

\* ---- C11 (SpecMut)
\* The bytes of f2 as they must be after the write: those before it, with
\* byte mi replaced by mv.
Written == [as_slice(before).slice EXCEPT ![mi] = mv]

\* C11: after a write of byte mv through as_slice_mut at index mi, the
\* file has the size it had and the bytes it had but for byte mi, which is
\* mv; the other file is untouched; a later size() and as_slice() return
\* that size and those bytes; and a later diff_raw returns Ok having
\* delivered a diff of the other file against the written content (the
\* same deliveries as for files newly made from those bytes).
C11_WriteFrame ==
    (mi # 0)
        => /\ size(f2) = size(before) /\ size(f2) = Len(data2)
           /\ is_compact(f2)
           /\ as_slice(f2).slice = Written
           /\ Written[mi] = mv
           /\ \A k \in 1..Len(data2) : k # mi => Written[k] = data2[k]
           /\ Content(f) = data
           /\ obs.read => (obs.slice = Written /\ obs.size = Len(data2)
                              /\ ~obs.panic)
           /\ pc = "rediffed"
                 => /\ result = Ok
                    /\ Replay(lines, 1, SplitLines(data), SplitLines(Written),
                              1, 1, 0, 0, "")
                    /\ lines = diff_raw_lines(from_bytes(data, Len(data)).file,
                                              from_bytes(Written,
                                                         Len(Written)).file)

\* The first byte of f2 has been written between two diffs that delivered
\* different lines (as in the test diff_with_mutation), and read back.
C11_Witness ==
    /\ pc = "rediffed" /\ mi = 1 /\ mv = "j"
    /\ lines0 # <<>> /\ lines # lines0 /\ Len(lines) = Len(lines0)
    /\ obs.read /\ obs.slice[1] = "j"

\* ---- C12 (SpecBlocks)
\* C12: the clone b2 = b1.clone() compares equal to b1 and is compact, b1
\* is as it was before the call, b2 has no block in common with b1, and
\* from then on each of the two holds exactly the bytes written to it:
\* no write_buf to one and no write through as_slice_mut of one (after
\* to_mmfile) shows in the other.
C12_DeepCopy ==
    (pc = "blocks" /\ cloned)
        => /\ lastop.op = "clone"
                 => /\ b1 = lastop.was
                    /\ MMBlocks_eq(b1.mm, b2.mm)
                    /\ MMBlocks_size(b2.mm) = MMBlocks_size(b1.mm)
                    /\ MMBlocks_is_compact(b2.mm)
           /\ Content(b1.mm) = data
           /\ Content(b2.mm) = data2
           /\ \A i \in 1..Len(b1.at) : \A j \in 1..Len(b2.at) :
                  b1.at[i] # b2.at[j]

\* A byte of the original, a compact file that was cloned, has been
\* written through as_slice_mut, and the clone still holds the old bytes.
C12_Witness ==
    /\ pc = "blocks" /\ cloned
    /\ lastop.op = "poke" /\ lastop.who = 1
    /\ Len(lastop.was.at) = 1
    /\ Content(b2.mm) = Content(lastop.was.mm)
    /\ Content(b1.mm) # Content(b2.mm)

\* A byte of the clone has been written through as_slice_mut, and the
\* original, of two blocks, still holds its bytes.
C12_WitnessClone ==
    /\ pc = "blocks" /\ cloned
    /\ lastop.op = "poke" /\ lastop.who = 2
    /\ Len(b1.at) = 2 /\ Content(b1.mm) # Content(b2.mm)

\* ---- C13 (SpecBlocks)
\* C13: MMBlocks::eq and MMFile::eq are true exactly when the two files
\* hold the same byte sequence, however the bytes lie in blocks: equal
\* bytes written by different sequences of write_buf compare equal, files
\* that differ in a byte or in length compare unequal.
C13_EqBytes ==
    (pc = "blocks")
        => /\ MMBlocks_eq(b1.mm, b2.mm) <=> (data = data2)
           /\ MMFile_eq(b1.mm, b2.mm) <=> (data = data2)
           /\ MMBlocks_eq(b2.mm, b1.mm) <=> (data = data2)
           /\ MMBlocks_eq(b1.mm, b1.mm)
           /\ Content(b1.mm) = data /\ Content(b2.mm) = data2
           /\ lastop.op = "eq" => (eqres <=> (data = data2))

\* eq has returned true for the same two bytes held in two blocks and in
\* one block.
C13_Witness ==
    /\ pc = "blocks" /\ lastop.op = "eq" /\ eqres
    /\ Len(data) = 2
    /\ Len(b1.at) = 2 /\ Len(b2.at) = 1 /\ ~cloned

\* eq has returned false for two files of the same length and layout that
\* differ in one byte.
C13_WitnessDiffer ==
    /\ pc = "blocks" /\ lastop.op = "eq" /\ ~eqres
    /\ Len(data) = Len(data2) /\ Len(b1.at) = 2 /\ Len(b2.at) = 2
    /\ Cardinality({k \in 1..Len(data) : data[k] # data2[k]}) = 1

\* ---- C20 (SpecBlocks)
\* The receiver of the last operation, as it is now.
Receiver == IF lastop.who = 1 THEN b1 ELSE b2

\* C20: after to_compact the file is compact and has the bytes and the
\* size it had; on a file that was compact already nothing changes (the
\* same block at the same address, no allocation); a second to_compact
\* changes nothing; and the file is equal to itself and to what it was.
C20_Compact ==
    (pc = "blocks" /\ lastop.op = "compact")
        => /\ MMBlocks_is_compact(Receiver.mm)
           /\ Content(Receiver.mm) = Content(lastop.was.mm)
           /\ MMBlocks_size(Receiver.mm) = MMBlocks_size(lastop.was.mm)
           /\ MMBlocks_size(Receiver.mm) = Len(Content(Receiver.mm))
           /\ MMBlocks_is_compact(lastop.was.mm) => Receiver = lastop.was
           /\ to_compact_at(Receiver, nalloc + 1) = Receiver
           /\ MMBlocks_eq(Receiver.mm, Receiver.mm)
           /\ MMBlocks_eq(Receiver.mm, lastop.was.mm)

\* to_compact has made one block of a file of two blocks.
C20_Witness ==
    /\ pc = "blocks" /\ lastop.op = "compact"
    /\ Len(lastop.was.at) = 2 /\ Len(Receiver.at) = 1
    /\ Receiver.at # SubSeq(lastop.was.at, 1, 1)
    /\ Len(Content(Receiver.mm)) = 4

\* to_compact has been called on a file of one block.
C20_WitnessCompact ==
    /\ pc = "blocks" /\ lastop.op = "compact"
    /\ Len(lastop.was.at) = 1 /\ Receiver = lastop.was

\* ---- apply_patch outcomes (SpecPatch)
\* apply_patch has returned.
Applied == pc \in {"applied", "tried"}

\* The patch handed to apply_patch, parsed.
PatchOk == ParsePatch(Content(patch)).ok
PatchHunks == ParsePatch(Content(patch)).hunks
AllHunks == 1..Len(PatchHunks)

\* The lines of the file handed to apply_patch.
FileLines == SplitLines(Content(f))

\* The text of the hunks numbered in R, in patch order.
HunkText(R) ==
    Concat([x \in 1..Len(PatchHunks) |->
               IF x \in R THEN Concat(PatchHunks[x].raw) ELSE <<>>])

\* The patch without the hunks numbered in R.
Without(R) == MMBlocks_from_bytes(HunkText(AllHunks \ R))

\* The lines of the file at the place the header of hunk n names.
Region(n) ==
    LET hk == PatchHunks[n]
        hpos == IF hk.c1 > 0 THEN hk.s1 - 1 ELSE hk.s1
    IN  Concat(SubSeq(FileLines, Min(hpos + 1, Len(FileLines) + 1),
                      Min(hpos + hk.c1, Len(FileLines))))

\* The context and deletion lines of hunk n stand nowhere in the file.
NoMatch(n) ==
    \A p \in 0..Len(FileLines) : ~MatchAt(FileLines, p, OldLines(PatchHunks[n]))

C14_WitnessPartial ==
    /\ pc = "applied" /\ mutated /\ err = 1
    /\ Len(PatchHunks) = 2
    /\ Content(rejected) = HunkText({1})
    /\ Content(patched) # Content(f)

\* ---- C15 (SpecPatch)
\* C15 as stated: what is written to rejected for the failed hunks is the
\* region of the file they stand for.
C15_Original ==
    (Applied /\ err = 1)
        => \E R \in SUBSET AllHunks \ {{}} :
               Content(rejected) =
                   Concat([x \in 1..Len(PatchHunks) |->
                              IF x \in R THEN Region(x) ELSE <<>>])

\* C15, amended: a hunk whose context and deletion lines stand nowhere in
\* the file is rejected and not applied, in part or in whole: patched is
\* what it would be had the hunk not been in the patch (the lines of the
\* file stay in patched), and what is written to rejected is the text of
\* the hunk (header and tagged lines), not the lines of the file.
C15_NotApplied ==
    (Applied /\ err \in {0, 1})
        => \A n \in AllHunks :
               NoMatch(n)
                   => /\ err = 1
                      /\ \E R \in SUBSET AllHunks :
                             n \in R /\ Content(rejected) = HunkText(R)
                      /\ Content(rejected) # Region(n)
                      /\ Content(patched) =
                             Content(apply_patch(f, Without({n}), 0).patched)

\* A hunk that deletes one line and adds another failed on a file of the
\* same number of lines: patched holds the lines of the file.
C15_Witness ==
    /\ Applied /\ err = 1
    /\ \E n \in AllHunks :
          /\ NoMatch(n)
          /\ PatchHunks[n].c1 > 0 /\ PatchHunks[n].c2 > 0
          /\ Region(n) # <<>>
    /\ Content(patched) = Content(f)
    /\ Content(f) # <<>>

\* ---- C16 (SpecPatch)
\* C16 as stated: apply_patch returns Ok exactly when rejected is empty.
C16_Original ==
    Applied => (result.ok <=> Content(rejected) = <<>>)

\* C16, amended: apply_patch returns Ok exactly when xdl_patch returned 0.
\* Ok implies an empty rejected output; a rejected output that is not
\* empty implies Err, which carries the patched and the rejected file; and
\* when no write fails and the patch parses, Ok is returned exactly when
\* rejected is empty.  Err with an empty rejected output is what a failed
\* write or a patch that does not parse gives.
C16_OkNoReject ==
    Applied
        => /\ result.ok <=> (err = 0)
           /\ result.ok => Content(rejected) = <<>>
           /\ Content(rejected) # <<>> => ~result.ok
           /\ is_compact(patched) /\ is_compact(rejected)
           /\ size(patched) = Len(Content(patched))
           /\ size(rejected) = Len(Content(rejected))
           /\ (~wfail /\ PatchOk)
                  => (result.ok <=> Content(rejected) = <<>>)
           /\ (~result.ok /\ Content(rejected) = <<>>) => (wfail \/ ~PatchOk)

\* Of two hunks one was applied and one rejected: Err with a patched and
\* a rejected file that are not empty.
C16_Witness ==
    /\ Applied /\ ~result.ok /\ err = 1
    /\ Len(PatchHunks) = 2
    /\ Content(rejected) # <<>> /\ Content(patched) # Content(f)

\* A write failed: Err with an empty rejected file.
C16_WitnessFailed ==
    /\ Applied /\ ~result.ok /\ wfail
    /\ Content(rejected) = <<>>

C17_InitOnce ==
    /\ inits + Cardinality({t \in Threads : tpc[t] = "init"}) <= 1
    /\ (inits = 1 \/ \E t \in Threads : tpc[t] = "init") <=> INITIALIZED
    /\ installed <=> (inits = 1)

\* Every thread has made all its calls and has returned, and init() ran
\* once.
C17_Witness ==
    /\ inits = 1
    /\ \A t \in Threads : ncalls[t] = MaxCalls /\ tpc[t] = "idle"

\* ---- C18 (SpecInit)
\* C18 as stated: no call of ensure_init returns before the allocator has
\* been installed.
C18_InstalledAtReturn ==
    \A t \in Threads : atret[t] # "missing"

\* A thread that lost the compare_exchange has returned from its first
\* call while the winner has not yet run init().
C18_Witness ==
    /\ \E t \in Threads : atret[t] = "missing" /\ ncalls[t] = 1
    /\ ~installed /\ INITIALIZED
    /\ \E t \in Threads : tpc[t] = "init"

\* ---- C21 (SpecPublic)
\* The MMFile values the caller holds.
Files ==
    {x \in {f, f2, f3, patched, rejected} : x # NoFile}
    \cup (IF kinds[1] = "file" THEN {b1.mm} ELSE {})
    \cup (IF kinds[2] = "file" THEN {b2.mm} ELSE {})

\* C21: every MMFile made by new, from_bytes, to_mmfile or apply_patch
\* holds at most one block, so the assertion of as_slice holds for each
\* and no as_slice call made has failed.
C21_Compact ==
    /\ \A x \in Files :
          /\ Len(x.blocks) <= 1
          /\ is_compact(x)
          /\ ~as_slice(x).panic
          /\ as_slice(x).slice = Content(x)
    /\ ~obs.panic

\* apply_patch has returned a patched file of several lines and a
\* rejected file of several lines, each written line by line and each of
\* one block.
C21_Witness ==
    /\ Applied /\ err = 1
    /\ Len(SplitLines(Content(patched))) >= 2
    /\ Len(SplitLines(Content(rejected))) >= 2
    /\ Len(patched.blocks) = 1 /\ Len(rejected.blocks) = 1

\* to_mmfile has made an MMFile of an MMBlocks of two blocks.
C21_WitnessBlocks ==
    /\ pc = "blocks" /\ kinds[1] = "file"
    /\ lastop.op = "to_mmfile"
    /\ lastop.who = 1 /\ Len(lastop.was.at) = 2
    /\ Len(b1.mm.blocks) = 1

\* ---- C22 (SpecPatch)
\* The buffers xdl_diff has for the callback, in order.
FlatBufs == Concat(xdl_diff_emit(data, data2))

\* Statuses xdl_diff may return.
Statuses == (0 - MaxFail)..MaxFail

RECURSIVE SumLen(_)
\* The sum of the lengths of the blocks.
SumLen(blocks) ==
    IF blocks = <<>> THEN 0 ELSE Len(Head(blocks)) + SumLen(Tail(blocks))

\* The MMBlocks the caller holds: 1 for b1, 2 for b2.
HeldBlocks == {k \in {1, 2} : kinds[k] = "blocks"}
Obj(k) == IF k = 1 THEN b1 ELSE b2

C23_WitnessShort ==
    /\ pc = "life" /\ lastop.op = "write" /\ wret = -1
    /\ lastop.w = 1 /\ Len(lastop.buf) = 2
    /\ MMBlocks_size(Obj(lastop.who).mm) = okbytes[lastop.who] + 1

\* ---- C25 (SpecLife)
\* The blocks of the objects the caller holds.
HeldAddrs ==
    {b1.at[i] : i \in 1..Len(b1.at)} \cup {b2.at[i] : i \in 1..Len(b2.at)}

C25_WitnessToMMFile ==
    /\ pc = "life" /\ lastop.op = "to_mmfile" /\ lastop.who = 1
    /\ kinds[1] = "file"
    /\ Len(lastop.was.at) = 2 /\ Len(b1.at) = 1
    /\ freed[b1.at[1]] = 0
    /\ \A i \in 1..2 : freed[lastop.was.at[i]] = 1

\* ---- C24 (SpecCtor)
\* C24 as stated: no constructor makes a call into libxdiff (init_mmfile,
\* xdl_init_mmfile, xdl_write_mmfile) while the allocator is not
\* installed.
C24_EnsureInitFirst == early = {}

\* MMFile::new, the first constructor of the program, has returned
\* without a call of ensure_init: the allocator is not installed.
C24_Witness ==
    /\ nctor = 1 /\ ctor = ""
    /\ early = {<<"MMFile_new", "init_mmfile">>}
    /\ ~installed /\ ~INITIALIZED

\* MMFile::from_bytes, the first constructor of the program, has called
\* init_mmfile before ensure_init.
C24_WitnessFromBytes ==
    /\ nctor = 0 /\ ctor = "MMFile_from_bytes" /\ cpos = 2
    /\ early = {<<"MMFile_from_bytes", "init_mmfile">>}
    /\ installed

\* ---- C26 (SpecDiff)
\* The unchanged lines between two changed entries c < d of an edit script.
Apart(c, d) == d - c - 1

\* Changed entries with no changed entry between them.
NextChange(ops, c, d) ==
    /\ c \in Changed(ops) /\ d \in Changed(ops) /\ c < d
    /\ \A k \in Changed(ops) : ~(c < k /\ k < d)

\* The changed entries hunk hk covers.
Covered(ops, hk) == {k \in Changed(ops) : hk.lo <= k /\ k <= hk.hi}

\* The batches of a diff that are hunk headers.
Headers(todoAll) ==
    {k \in 1..Len(todoAll) :
        Len(todoAll[k]) = 1 /\ IsHeaderLine(todoAll[k][1])}

HunksAsClaimed(ops, hks) ==
    /\ \A c \in Changed(ops) :
           Cardinality({h \in 1..Len(hks) : c \in Covered(ops, hks[h])}) = 1
    /\ \A h \in 1..Len(hks) :
           \E c \in Covered(ops, hks[h]), d \in Covered(ops, hks[h]) :
               /\ \A k \in Covered(ops, hks[h]) : c <= k /\ k <= d
               /\ hks[h].lo = Max(1, c - 3)
               /\ hks[h].hi = Min(Len(ops), d + 3)
    /\ \A h \in 1..(Len(hks) - 1) : hks[h].hi < hks[h + 1].lo
    /\ \A c \in Changed(ops), d \in Changed(ops) :
           NextChange(ops, c, d) =>
               ((\E h \in 1..Len(hks) : {c, d} \subseteq Covered(ops, hks[h]))
                    <=> Apart(c, d) < 6)

C26_WitnessJoined ==
    /\ pc = "done" /\ result.ok
    /\ LET P(ops) ==
               /\ Len(Hunks(ops)) = 1
               /\ \E c \in Changed(ops), d \in Changed(ops) :
                      NextChange(ops, c, d) /\ Apart(c, d) = 5
       IN  P(EditScript(SplitLines(data), SplitLines(data2)))

\* ---- C27 (SpecOperands)
\* File `file` holds the bytes `bytes`, and its size says so.
Holds(file, bytes) ==
    Content(file) = bytes /\ xdl_mmfile_size(file) = Len(bytes)

\* The bytes a patch engine run hands to the output function s.
StreamBytes(stream, s) ==
    Concat([x \in 1..Len(stream) |->
               IF stream[x].s = s THEN Concat(stream[x].bufs) ELSE <<>>])

\* What one step may do to the operand files of the operation it is part
\* of.
OperandFrame ==
    /\ (pc = "idle" /\ pc' \in {"computed", "failed"}) =>
           Holds(f', data') /\ Holds(f2', data2')
    /\ (pc \in {"computed", "given"} /\ pc' \in {"applied", "tried"}) =>
           /\ f' = f /\ patch' = patch
           /\ ~wfail' =>
                  LET Out(e) ==
                          /\ Content(patched') = StreamBytes(e.emit, "acc")
                          /\ Content(rejected') = StreamBytes(e.emit, "rej")
                  IN  Out(xdl_patch_emit(Content(f), Content(patch)))
    /\ pc \in {"diff", "merge"} => <<f, f2, f3>>' = <<f, f2, f3>>
    /\ pc' \in {"diff", "merge", "done"} =>
           /\ Holds(f', data') /\ Holds(f2', data2')
           /\ (pc' = "merge" \/ data3' # <<>>) => Holds(f3', data3')
    /\ (pc = "applied" /\ pc' = "compared") =>
           /\ <<f, f2, patched>>' = <<f, f2, patched>>
           /\ eqres' = (Content(patched) = Content(f2))

\* C27: compute_patch, apply_patch, every step of diff_raw and of
\* merge3_raw, and eq leave each operand file with the bytes and the size
\* it had, whether the operation returns Ok, returns Err or is ended by
\* its callback; what apply_patch produces is in the new files patched
\* and rejected and nowhere else.
C27_Frame == [][OperandFrame]_vars

\* apply_patch has returned Err with rejected hunks on a file changed
\* through as_slice_mut: the file still holds the changed bytes.
C27_Witness ==
    /\ pc = "applied" /\ mutated /\ ~result.ok /\ ~wfail
    /\ Content(rejected) # <<>>
    /\ Content(f) # data /\ Len(Content(f)) = Len(data)
    /\ Holds(f2, data2)

\* compute_patch has returned Err after its second write failed.
C27_WitnessAbort ==
    /\ pc = "failed" /\ ~result.ok /\ Len(lines) = 1
    /\ Holds(f, data) /\ Holds(f2, data2) /\ data # data2

\* merge3_raw has returned Err after a panic of a callback.
C27_WitnessMerge ==
    /\ pc = "done" /\ data3 # <<>> /\ panicK # 0 /\ ~result.ok
    /\ Holds(f, data) /\ Holds(f2, data2) /\ Holds(f3, data3)

\* eq has compared the patched file with the target of the patch.
C27_WitnessEq ==
    /\ pc = "compared" /\ eqres /\ data # data2
    /\ Holds(patched, data2) /\ Holds(f2, data2)

====
